---- MODULE Spec2Model ----
(***************************************************************************)
(* A model of the zee editor core: the SyntaxTree with its cancelable      *)
(* background parse tasks (src/src/syntax/parse.rs), the Buffer view's     *)
(* scrolling (src/core/src/components/buffer/mod.rs) and the syntax        *)
(* cursor's trace_at (src/src/syntax/parse.rs).                            *)
(***************************************************************************)
EXTENDS Integers, Sequences, FiniteSets, TLC

(***************************************************************************)
(* Bounds of the model.                                                    *)
(***************************************************************************)
\* longest rope, in bytes
MaxLen == 1
\* number of rope versions produced by edits
MaxEdits == 1
\* number of parse tasks the scheduler hands out
MaxTasks == 2
\* number of characters typed in a burst, each spawning a parse
MaxBurst == 2
\* tallest frame of the Buffer component, in rows
MaxHeight == 5
\* number of lines of the longest buffer content
MaxLines == 4
\* number of consecutive CenterCursorVisually messages that are counted
MaxCenters == 4
\* number of nodes of the largest syntax tree a SyntaxCursor walks
MaxNodes == 4
\* largest byte_index, old_length and new_length given to OpaqueDiff::new
MaxDiff == 3
\* longest text of an edited buffer, in bytes
MaxRope == 2
\* number of revisions committed on top of the root of an edit tree
MaxRevisions == 1
\* number of messages waiting in the editor's mailbox
MaxMailbox == 2
\* tallest prompt asked for by ChangePromptHeight, in rows
MaxPromptRows == 2
\* number of pieces a looked-up file name is put together from
MaxPieces == 2
\* number of keys in a slice handed to input_binding
MaxPressed == 2
\* number of edits made to a buffer whose text is parsed once
MaxAdjust == 2
\* number of events the input thread reads
MaxKeysRead == 2
\* number of slots of the input channel, 2048 in termion.rs:153
MaxChannel == 1

(***************************************************************************)
(* Program constants.                                                      *)
(***************************************************************************)
CANCEL_FLAG_UNSET == 0
CANCEL_FLAG_SET == 1

VARIABLES
    \* ---- SyntaxTree (parse.rs:33-38)
    language_ok,          \* whether Parser::set_language accepts self.language
    parsers,              \* SyntaxTree.parsers: the pool, a Vec of parsers
    tree,                 \* SyntaxTree.tree: Option<Tree>
    current_parse_task,   \* SyntaxTree.current_parse_task: Option<(TaskId, CancelFlag)>
    \* ---- the cancel flags, one atomic word per constructed parser
    flag,
    \* ---- the caller's rope and the scheduler
    rope,                 \* the buffer's text: a version and a byte length
    next_task_id,         \* Scheduler: the next TaskId it hands out
    running,              \* closures submitted to the scheduler, not finished
    inbox,                \* completion messages, in completion order
    \* ---- history
    spawned,              \* the rope given to the latest successful spawn
    limits,               \* how many edits and tasks a run is cut off at, and
                          \* whether the scheduler may refuse a task
    pc,                   \* where the buffer's edit handler is: "idle" or "edited"
    peak,                 \* in a burst: the parsers constructed so far and the
                          \* most tasks that were unhandled at once
    last,                 \* the operation that made the last step
    \* ---- the Buffer component (buffer/mod.rs:75-80), None before create
    buffer,
    centers,              \* history: CenterCursorVisually messages in a row
    \* ---- SyntaxCursor (parse.rs:238-241) and the caller's NodeTrace
    syntax_cursor,        \* None, or the tree it walks and the cursor's node
    node_trace,           \* NodeTrace (parse.rs:209-215)
    \* ---- diffs and the ropes they describe
    last_diff,            \* the OpaqueDiff the last operation returned
    staged,               \* the buffer's text, byte by byte
    revisions,            \* the edit tree's revisions from the root along
                          \* the current branch: the diff of each and the
                          \* rope after it
    current,              \* the position of the current revision in them
    \* ---- the Editor component (editor/mod.rs:92-104)
    editor,               \* prompt_action, prompt_height, buffers, windows,
                          \* and whether it has exited
    mailbox,              \* messages sent to the editor, not yet handled
    \* ---- mode resolution (src/mode.rs)
    lookup,               \* the last call of find_by_filename: the filename
                          \* and the mode returned
    \* ---- Buffer::input_binding (buffer/mod.rs:268-409)
    binding,              \* the keys pressed, what they are pressed under,
                          \* and the result of input_binding
    \* ---- the terminal front end's Input (termion.rs:147-169)
    input                 \* the events its thread has read, the channel, the
                          \* keys received from it, and how both ends stand

syntaxState == <<language_ok, parsers, tree, current_parse_task, flag, rope,
                 next_task_id, running, inbox, spawned, limits, pc, peak>>

\* what the operations of one part of the program leave alone
outsideSyntax ==
    <<buffer, centers,
      syntax_cursor, node_trace,
      last_diff, staged, revisions, current,
      editor, mailbox,
      lookup, binding, input>>

outsideView ==
    <<syntaxState,
      syntax_cursor, node_trace,
      last_diff, staged, revisions, current,
      editor, mailbox,
      lookup, binding, input>>

outsideTrace ==
    <<syntaxState,
      buffer, centers,
      last_diff, staged, revisions, current,
      editor, mailbox,
      lookup, binding, input>>

outsideEdit ==
    <<syntaxState,
      buffer, centers,
      syntax_cursor, node_trace,
      editor, mailbox,
      lookup, binding, input>>

outsideEditor ==
    <<syntaxState,
      buffer, centers,
      syntax_cursor, node_trace,
      last_diff, staged, revisions, current,
      lookup, binding, input>>

outsideMode ==
    <<syntaxState, last,
      buffer, centers,
      syntax_cursor, node_trace,
      last_diff, staged, revisions, current,
      editor, mailbox,
      binding, input>>

outsideKeys ==
    <<syntaxState, last,
      buffer, centers,
      syntax_cursor, node_trace,
      last_diff, staged, revisions, current,
      editor, mailbox,
      lookup, input>>

outsideInput ==
    <<syntaxState, last,
      buffer, centers,
      syntax_cursor, node_trace,
      last_diff, staged, revisions, current,
      editor, mailbox,
      lookup, binding>>

vars ==
    <<syntaxState, last,
      buffer, centers,
      syntax_cursor, node_trace,
      last_diff, staged, revisions, current,
      editor, mailbox,
      lookup, binding, input>>

(***************************************************************************)
(* Option<T>.                                                              *)
(***************************************************************************)
None == [some |-> FALSE]
Some(x) == [some |-> TRUE, v |-> x]

Max(a, b) == IF a >= b THEN a ELSE b

ParserIds == 1..(Max(MaxTasks, MaxBurst + 1) + 1)

(***************************************************************************)
(* OpaqueDiff (parse.rs:168-207).                                          *)
(***************************************************************************)
OpaqueDiff(byte_index, old_length, new_length) ==
    [byte_index |-> byte_index, old_length |-> old_length, new_length |-> new_length]

\* parse.rs:186-192
empty == OpaqueDiff(0, 0, 0)

\* parse.rs:195-197
is_empty(d) == d.byte_index = 0 /\ d.old_length = 0 /\ d.new_length = 0

\* faulty variant: the lengths stay where they are
reverse_keeping_lengths(d) == d

\* faulty variant: the lengths are swapped and the position is lost
reverse_dropping_index(d) == OpaqueDiff(0, d.new_length, d.old_length)

\* parse.rs:200-206
reverse(d) == OpaqueDiff(d.byte_index, d.new_length, d.old_length)

\* The diffs an edit of a rope of len bytes can produce: a range inside the
\* rope replaced by new_length bytes, the result no longer than MaxLen.
Diffs(len) ==
    { d \in [byte_index : 0..len, old_length : 0..len, new_length : 0..MaxLen] :
        /\ d.byte_index + d.old_length <= len
        /\ len - d.old_length + d.new_length <= MaxLen }

(***************************************************************************)
(* tree_sitter::Tree, as far as the SyntaxTree looks at it: the byte where *)
(* the root node ends, the rope version it was parsed from (ver) and the   *)
(* rope version its positions have been edit-adjusted to (adj).            *)
(***************************************************************************)
Tree(ver, end_byte, adj) == [ver |-> ver, end_byte |-> end_byte, adj |-> adj]

\* Tree::edit(InputEdit{start_byte, old_end_byte, new_end_byte}) on the root:
\* an edit that starts inside the root (or is an insertion at its end)
\* resizes it, an edit past its end leaves it alone.
TreeEdit(t, start_byte, old_end_byte, new_end_byte, from_ver, to_ver) ==
    LET hit == \/ start_byte < t.end_byte
               \/ (start_byte = t.end_byte /\ old_end_byte = start_byte)
        end == IF hit
               THEN new_end_byte + Max(0, t.end_byte - old_end_byte)
               ELSE t.end_byte
    IN  Tree(t.ver, end, IF t.adj = from_ver THEN to_ver ELSE t.adj)

(***************************************************************************)
(* Parser::parse_with(read, old_tree) on a frozen rope (parse.rs:88-96).   *)
(* The parser reads the text only through the callback, which ends at      *)
(* text.len_bytes: a parse from scratch, or one whose old tree was         *)
(* edit-adjusted to exactly this text, ends inside the text.  Nodes of an  *)
(* old tree that was not adjusted to this text are reused with the extent  *)
(* they had, whatever the text: the result is only bounded by the larger   *)
(* of the two.                                                             *)
(***************************************************************************)
HintMatches(text, hint) == ~hint.some \/ hint.v.adj = text.ver

ParseEnds(text, hint) ==
    IF HintMatches(text, hint)
    THEN 0..text.len
    ELSE 0..Max(text.len, hint.v.end_byte)

(***************************************************************************)
(* The state after SyntaxTree::new (parse.rs:41-48), for a buffer that     *)
(* holds a rope of any length.                                             *)
(***************************************************************************)
\* The operation of the last step: its name, the task it was about, whether it
\* returned normally, and what it did.
Op(op, task_id, ok, effect) ==
    [op |-> op, task_id |-> task_id, ok |-> ok, effect |-> effect]

InitSyntaxTree(max_edits, max_tasks, refusals) ==
    /\ language_ok \in BOOLEAN
    /\ parsers = <<>>
    /\ tree = None
    /\ current_parse_task = None
    /\ flag = [p \in ParserIds |-> CANCEL_FLAG_UNSET]
    /\ rope \in {[ver |-> 0, len |-> n] : n \in 0..MaxLen}
    /\ next_task_id = 1
    /\ running = {}
    /\ inbox = <<>>
    /\ spawned = None
    /\ limits = [edits |-> max_edits, tasks |-> max_tasks, refusals |-> refusals]
    /\ pc = "idle"
    /\ peak = [constructed |-> 0, unhandled |-> 0]
    /\ last = Op("new", 0, TRUE, "none")

\* A failed assertion is a panic: nothing runs after it.
Alive == last.effect # "panic"

\* The parsers that exist: in the pool, in a running closure or in a
\* completion message.
LiveParsers ==
    {parsers[i] : i \in 1..Len(parsers)} \cup {t.parser : t \in running}
        \cup {inbox[i].parser : i \in 1..Len(inbox)}

\* faulty variant: every parser is built around one and the same flag
NewParserOnSharedFlag == CHOOSE p \in ParserIds : TRUE

\* CancelableParser::new (parse.rs:296-302): a parser with a flag of its own.
NewParser == CHOOSE p \in ParserIds : p \notin LiveParsers

(***************************************************************************)
(* SyntaxTree::edit (parse.rs:148-165), called with the diff of an edit    *)
(* the buffer has just made to its rope.                                   *)
(***************************************************************************)
\* faulty variant: the old and the new end are taken the other way round
SyntaxTreeEditSwapped(t, diff, from_ver, to_ver) ==
    IF t.some /\ ~is_empty(diff)
    THEN Some(TreeEdit(t.v, diff.byte_index, diff.byte_index + diff.new_length,
                       diff.byte_index + diff.old_length, from_ver, to_ver))
    ELSE t

\* parse.rs:149-164: the tree after the match
SyntaxTreeEdit(t, diff, from_ver, to_ver) ==
    IF t.some /\ ~is_empty(diff)
    THEN Some(TreeEdit(t.v, diff.byte_index, diff.byte_index + diff.old_length,
                       diff.byte_index + diff.new_length, from_ver, to_ver))
    ELSE t

edit(diff) ==
    LET changed == diff.old_length # 0 \/ diff.new_length # 0
        new_rope == IF changed
                    THEN [ver |-> rope.ver + 1,
                          len |-> rope.len - diff.old_length + diff.new_length]
                    ELSE rope
    IN  /\ new_rope.ver <= limits.edits
        /\ rope' = new_rope
        /\ tree' = SyntaxTreeEdit(tree, diff, rope.ver, new_rope.ver)
        /\ last' = Op("edit", 0, TRUE, "none")
        /\ UNCHANGED <<language_ok, parsers, current_parse_task, flag,
                       next_task_id, running, inbox, spawned, limits>>

(***************************************************************************)
(* SyntaxTree::spawn_parse_task (parse.rs:71-117).                         *)
(*                                                                         *)
(* sched_ok is the outcome of Scheduler::spawn, which hands out task ids   *)
(* in increasing order; a closure it refuses is dropped with the parser    *)
(* that was moved into it.                                                 *)
(***************************************************************************)
\* faulty variant: the parser handed to the task stays in the pool as well
PoolAfterPeek(pool) == pool

\* parse.rs:77 `self.parsers.pop()`: the pool without its last parser
PoolAfterPop(pool) == IF pool = <<>> THEN pool ELSE SubSeq(pool, 1, Len(pool) - 1)

\* faulty variant: a parser is constructed for every task
TakeParserAlwaysNew(pool) == NewParser

\* parse.rs:77-83: the parser the task gets, from the pool or a new one
TakeParser(pool) == IF pool = <<>> THEN NewParser ELSE pool[Len(pool)]

\* parse.rs:95 `if fresh { None } else { tree.as_ref() }`
HintFor(t, fresh) == IF fresh THEN None ELSE t

\* faulty variant: the previous task is not told to stop
CancelNothing(f, cur) == f

\* faulty variant: the new task is recorded first, and then the recorded
\* task's flag is set
CancelRecorded(f, cur) ==
    IF cur.some THEN [f EXCEPT ![TakeParser(parsers)] = CANCEL_FLAG_SET] ELSE f

\* parse.rs:112-114: the previous task's flag is set
CancelPrevious(f, cur) ==
    IF cur.some THEN [f EXCEPT ![cur.v.flag] = CANCEL_FLAG_SET] ELSE f

\* faulty variant: a task already recorded is kept
RecordTaskIfNone(task_id, cancel_flag) ==
    IF current_parse_task.some
    THEN current_parse_task
    ELSE Some([task_id |-> task_id, flag |-> cancel_flag])

\* parse.rs:115
RecordTask(task_id, cancel_flag) == Some([task_id |-> task_id, flag |-> cancel_flag])

spawn_parse_task(opname, text, fresh, sched_ok) ==
    LET from_pool == parsers # <<>>
        parser == TakeParser(parsers)
        task_id == next_task_id
    IN  IF ~from_pool /\ ~language_ok
        THEN \* parse.rs:79-81: Err(IncompatibleLanguageGrammar)
             /\ last' = Op(opname, 0, FALSE, "error")
             /\ UNCHANGED <<language_ok, parsers, tree, current_parse_task, flag,
                            rope, next_task_id, running, inbox, spawned, limits>>
        ELSE IF ~sched_ok
        THEN \* parse.rs:111: scheduler.spawn(..)? returns the error
             /\ limits.refusals
             /\ parsers' = PoolAfterPop(parsers)
             /\ last' = Op(opname, 0, FALSE, "error")
             /\ UNCHANGED <<language_ok, tree, current_parse_task, flag, rope,
                            next_task_id, running, inbox, spawned, limits>>
        ELSE /\ next_task_id <= limits.tasks
             /\ parsers' = PoolAfterPop(parsers)
             /\ next_task_id' = next_task_id + 1
             /\ running' = running \cup
                    {[task_id |-> task_id, parser |-> parser, text |-> text,
                      fresh |-> fresh, hint |-> HintFor(tree, fresh)]}
             /\ flag' = CancelPrevious(
                            IF from_pool THEN flag
                            ELSE [flag EXCEPT ![parser] = CANCEL_FLAG_UNSET],
                            current_parse_task)
             /\ current_parse_task' = RecordTask(task_id, parser)
             /\ last' = Op(opname, task_id, TRUE, "spawned")
             /\ spawned' = Some(text)
             /\ UNCHANGED <<language_ok, tree, rope, inbox, limits>>

(***************************************************************************)
(* SyntaxTree::ensure_tree (parse.rs:60-69).                               *)
(***************************************************************************)
\* faulty variant: the recorded task is not looked at
EnsureTreeIfNoTree(t, cur) == ~t.some

\* parse.rs:65-66: the match arm (None, None)
EnsureTreeSpawns(t, cur) == ~t.some /\ ~cur.some

ensure_tree ==
    /\ Alive
    /\ \E sched_ok \in BOOLEAN :
        IF EnsureTreeSpawns(tree, current_parse_task)
        THEN spawn_parse_task("ensure_tree", rope, TRUE, sched_ok)
        ELSE /\ last' = Op("ensure_tree", 0, TRUE, "none")
             /\ UNCHANGED <<language_ok, parsers, tree, current_parse_task,
                            flag, rope, next_task_id, running, inbox, spawned,
                            limits>>

(***************************************************************************)
(* The closure of a parse task, run by a worker (parse.rs:87-111).         *)
(* parse_with gives None only when the parser saw its cancel flag set; a   *)
(* parser whose flag is set may still have finished before looking at it.  *)
(***************************************************************************)
\* faulty variant: the payload carries the buffer's rope of the moment
PayloadTextOfBuffer(task) == rope

\* parse.rs:103 `ParsedSyntax { tree, text }`: the text the closure owns
PayloadText(task) == task.text

\* faulty variant: a parse may give up whether or not its flag is set
ParseOutcomesOrNone(task) ==
    { Some([tree |-> Tree(task.text.ver, e, task.text.ver),
            text |-> PayloadText(task)]) : e \in ParseEnds(task.text, task.hint) }
    \cup {None}

\* parse.rs:88-110: what the closure can send
ParseOutcomes(task) ==
    { Some([tree |-> Tree(task.text.ver, e, task.text.ver),
            text |-> PayloadText(task)]) : e \in ParseEnds(task.text, task.hint) }
    \cup (IF flag[task.parser] = CANCEL_FLAG_SET THEN {None} ELSE {})

ParseFinish ==
    /\ Alive
    /\ \E task \in running : \E parsed \in ParseOutcomes(task) :
        /\ running' = running \ {task}
        /\ inbox' = Append(inbox, [task_id |-> task.task_id,
                                   parser |-> task.parser, parsed |-> parsed,
                                   task |-> task])
        /\ last' = Op("parse", task.task_id, TRUE,
                      IF parsed.some THEN "parsed" ELSE "cancelled")
        /\ UNCHANGED <<language_ok, parsers, tree, current_parse_task, flag, rope,
                       next_task_id, spawned, limits>>

(***************************************************************************)
(* SyntaxTree::handle_parse_syntax_done (parse.rs:119-146), called with    *)
(* the oldest completion message.                                          *)
(***************************************************************************)
\* faulty variant: every completion counts as the awaited one while a task is recorded
IsAwaitedAnyId(cur, task_id) == cur.some

\* faulty variant: no completion is the awaited one, the record is never cleared
IsAwaitedNever(cur, task_id) == FALSE

\* faulty variant: the test of parse.rs:134 inverted
IsAwaitedInverted(cur, task_id) == cur.some /\ cur.v.task_id # task_id

\* parse.rs:131-138: the completion is the one the tree waits for
IsAwaited(cur, task_id) == cur.some /\ cur.v.task_id = task_id

\* faulty variant: whatever the parser returns is installed
AssertNothing(parsed) == TRUE

\* parse.rs:143: the assertion
AssertCoherent(parsed) == parsed.tree.end_byte <= parsed.text.len

\* The record of a handle_parse_syntax_done step: the status it was called
\* with (status.task is the closure that sent it, kept for the properties).
Done(status, ok, effect) ==
    [op |-> "done", task_id |-> status.task_id, ok |-> ok, effect |-> effect,
     status |-> status]

handle_parse_syntax_done ==
    /\ Alive
    /\ inbox # <<>>
    /\ LET status == Head(inbox)
           awaited == IsAwaited(current_parse_task, status.task_id)
       IN  /\ inbox' = Tail(inbox)
           /\ flag' = [flag EXCEPT ![status.parser] = CANCEL_FLAG_UNSET]
           /\ parsers' = Append(parsers, status.parser)
           /\ current_parse_task' = IF awaited THEN None ELSE current_parse_task
           /\ tree' = IF awaited /\ status.parsed.some /\ AssertCoherent(status.parsed.v)
                      THEN Some(status.parsed.v.tree)
                      ELSE tree
           /\ last' = IF ~awaited
                      THEN Done(status, TRUE,
                                IF status.parsed.some THEN "discarded"
                                ELSE "discarded_cancelled")
                      ELSE IF ~status.parsed.some
                      THEN Done(status, TRUE, "cancelled")
                      ELSE IF AssertCoherent(status.parsed.v)
                      THEN Done(status, TRUE, "installed")
                      ELSE Done(status, FALSE, "panic")
    /\ UNCHANGED <<language_ok, rope, next_task_id, running, spawned, limits>>

(***************************************************************************)
(* The Buffer component (buffer/mod.rs).  Of its properties the model      *)
(* keeps what scrolling reads: the number of lines of the content and the  *)
(* line of the cursor, content.char_to_line(cursor.range().start).  Of     *)
(* its frame it keeps the height.                                          *)
(***************************************************************************)
Message ==
    {"Up", "Down", "Left", "Right", "CenterCursorVisually",
     "ClearSelection", "ToggleEditTree"}

\* the properties a parent can hand to the component: the cursor is on a
\* line of the content
PropertiesSet ==
    {p \in [len_lines : 1..MaxLines, cursor_line : 0..(MaxLines - 1)] :
        p.cursor_line < p.len_lines}

Heights == 0..MaxHeight

\* usize::saturating_sub
saturating_sub(a, b) == IF a >= b THEN a - b ELSE 0

\* buffer/mod.rs:124, the rows left for text above the status bar
num_lines(height) == saturating_sub(height, 1)

\* a scroll that only ever follows the cursor downwards
ensure_cursor_below_only(current_line, line_offset, height) ==
    IF current_line - line_offset > saturating_sub(num_lines(height), 1)
    THEN current_line + 1 - num_lines(height)
    ELSE line_offset

\* faulty variant: a scroll of one line towards the cursor
ensure_cursor_by_one_line(current_line, line_offset, height) ==
    IF current_line < line_offset
    THEN line_offset - 1
    ELSE IF current_line - line_offset > saturating_sub(num_lines(height), 1)
         THEN line_offset + 1
         ELSE line_offset

\* a scroll that always puts the cursor line on the first row
ensure_cursor_at_top(current_line, line_offset, height) == current_line

\* buffer/mod.rs:119-131, as the line_offset it leaves
ensure_cursor_in_view(current_line, line_offset, height) ==
    IF current_line < line_offset
    THEN current_line
    ELSE IF current_line - line_offset > saturating_sub(num_lines(height), 1)
         THEN current_line + 1 - num_lines(height)
         ELSE line_offset

\* faulty variant: line 139 evaluated whatever line 138 found
center_subtractions_unguarded(line_index, line_offset, height) ==
    {<<line_index, height \div 2>>}

\* The subtractions of usize that a call evaluates, as <<minuend,
\* subtrahend>>: buffer/mod.rs:138-141, where && evaluates its right side
\* only when the left side holds
center_subtractions(line_index, line_offset, height) ==
    IF line_index >= height \div 2
    THEN {<<line_index, height \div 2>>}
    ELSE {}

\* buffer/mod.rs:125-129; saturating_sub does not underflow
ensure_subtractions(current_line, line_offset, height) ==
    IF current_line < line_offset
    THEN {}
    ELSE {<<current_line, line_offset>>} \cup
         (IF current_line - line_offset > saturating_sub(num_lines(height), 1)
          THEN {<<current_line + 1, num_lines(height)>>}
          ELSE {})

\* buffer/mod.rs:133-147, as the line_offset it leaves
center_visual_cursor(line_index, line_offset, height) ==
    IF /\ line_index >= height \div 2
       /\ line_offset # line_index - height \div 2
    THEN line_index - height \div 2
    ELSE IF line_offset # line_index
         THEN line_index
         ELSE 0

\* faulty variant: Up leaves the edit tree view
reduce_up_closes(b, message) ==
    CASE message = "CenterCursorVisually" ->
            [b EXCEPT !.line_offset =
                center_visual_cursor(b.properties.cursor_line, b.line_offset,
                                     b.frame_height)]
      [] message \in {"ClearSelection", "Up"} /\ b.viewing_edit_tree ->
            [b EXCEPT !.viewing_edit_tree = FALSE]
      [] message = "ToggleEditTree" ->
            [b EXCEPT !.viewing_edit_tree = ~b.viewing_edit_tree]
      [] OTHER -> b

\* buffer/mod.rs:84-117
reduce(b, message) ==
    CASE message = "CenterCursorVisually" ->
            [b EXCEPT !.line_offset =
                center_visual_cursor(b.properties.cursor_line, b.line_offset,
                                     b.frame_height)]
      [] message = "ClearSelection" /\ b.viewing_edit_tree ->
            [b EXCEPT !.viewing_edit_tree = FALSE]
      [] message = "ToggleEditTree" ->
            [b EXCEPT !.viewing_edit_tree = ~b.viewing_edit_tree]
      [] OTHER -> b

NoBuffer == buffer = None /\ centers = 0

\* Component::create, buffer/mod.rs:154-164
create(properties, frame_height) ==
    /\ ~buffer.some
    /\ buffer' = Some([properties |-> properties,
                       frame_height |-> frame_height,
                       line_offset |->
                           ensure_cursor_in_view(properties.cursor_line, 0,
                                                 frame_height),
                       viewing_edit_tree |-> FALSE])
    /\ centers' = 0
    /\ last' = Op("create", 0, TRUE, "none")
    /\ UNCHANGED outsideView

\* Component::change, buffer/mod.rs:166-178
change(properties) ==
    /\ buffer.some
    /\ buffer' = Some([buffer.v EXCEPT
                          !.properties = properties,
                          !.line_offset =
                              ensure_cursor_in_view(properties.cursor_line,
                                                    buffer.v.line_offset,
                                                    buffer.v.frame_height)])
    /\ centers' = 0
    /\ last' = Op("change", 0, TRUE, "none")
    /\ UNCHANGED outsideView

\* Component::resize, buffer/mod.rs:180-184
resize(frame_height) ==
    /\ buffer.some
    /\ buffer' = Some([buffer.v EXCEPT
                          !.frame_height = frame_height,
                          !.line_offset =
                              ensure_cursor_in_view(
                                  buffer.v.properties.cursor_line,
                                  buffer.v.line_offset, frame_height)])
    /\ centers' = 0
    /\ last' = Op("resize", 0, TRUE, "none")
    /\ UNCHANGED outsideView

\* Component::update, buffer/mod.rs:186-189
update(message) ==
    /\ buffer.some
    /\ message = "CenterCursorVisually" => centers < MaxCenters
    /\ buffer' = Some(reduce(buffer.v, message))
    /\ centers' = IF message = "CenterCursorVisually" THEN centers + 1 ELSE 0
    /\ last' = Op("update", 0, TRUE, message)
    /\ UNCHANGED outsideView

(***************************************************************************)
(* SyntaxCursor::trace_at (parse.rs:237-273).  A syntax tree is a          *)
(* sequence of nodes in preorder, the root first: each node has a parent   *)
(* (0 for the root) and a kind; every leaf spans one byte and every other  *)
(* node spans its leaves, from the start of the first to the end of the    *)
(* last.  One leaf may have a byte of white space before it (gap is that   *)
(* leaf, or 0), which belongs to no node.  A node is an error node when    *)
(* its kind is "ERROR".  The payload map_node gives for a node is the node *)
(* itself.                                                                 *)
(***************************************************************************)
Kinds == {"a", "b", "ERROR"}

RECURSIVE IsAncestorOrSelf(_, _, _)
IsAncestorOrSelf(parent, a, x) ==
    IF x = a THEN TRUE
    ELSE IF x <= 1 THEN FALSE
    ELSE IsAncestorOrSelf(parent, a, parent[x])

\* the parent vectors of the ordered trees of n nodes, numbered in preorder
ValidParents(n) ==
    {p \in [1..n -> 0..(n - 1)] :
        /\ p[1] = 0
        /\ \A i \in 2..n :
              /\ p[i] >= 1
              /\ p[i] < i
              /\ IsAncestorOrSelf(p, p[i], i - 1)}

Trees ==
    UNION {UNION {{[n |-> n, parent |-> p, kind |-> k, gap |-> g] :
                      k \in [1..n -> Kinds],
                      g \in {0} \cup {i \in 1..n : \A j \in 1..n : p[j] # i}} :
                  p \in ValidParents(n)} :
           n \in 1..MaxNodes}

children(t, x) == {i \in 1..t.n : t.parent[i] = x}

is_leaf(t, x) == children(t, x) = {}

\* the position of a node among its parent's children, from 0
child_index(t, x) ==
    Cardinality({i \in children(t, t.parent[x]) : i < x})

start_byte(t, x) ==
    Cardinality({i \in 1..(x - 1) : is_leaf(t, i)})
        + (IF t.gap # 0 /\ \A i \in x..(t.gap - 1) : ~is_leaf(t, i)
           THEN 1 ELSE 0)

end_byte(t, x) ==
    Cardinality({i \in 1..t.n :
                    /\ is_leaf(t, i)
                    /\ \/ i < x
                       \/ IsAncestorOrSelf(t.parent, x, i)})
        + (IF t.gap # 0 /\ (t.gap < x \/ IsAncestorOrSelf(t.parent, x, t.gap))
           THEN 1 ELSE 0)

kind(t, x) == t.kind[x]

is_error(t, x) == t.kind[x] = "ERROR"

map_node(t, x) == x

\* TreeCursor::goto_first_child: the first child, whatever the byte
goto_first_child(t, x, byte_index) ==
    IF children(t, x) = {}
    THEN None
    ELSE Some([node |-> x + 1, nth_child |-> 0])

\* TreeCursor::goto_first_child_for_byte: the first child that extends
\* beyond byte_index, with its position among the children
goto_first_child_for_byte(t, x, byte_index) ==
    LET beyond == {c \in children(t, x) : end_byte(t, c) > byte_index}
    IN  IF beyond = {}
        THEN None
        ELSE LET c == CHOOSE c \in beyond : \A d \in beyond : c <= d
             IN  Some([node |-> c, nth_child |-> child_index(t, c)])

\* the loop of parse.rs:261-266: the nodes the cursor moves to, in order
RECURSIVE descend(_, _, _)
descend(t, x, byte_index) ==
    LET next == goto_first_child_for_byte(t, x, byte_index)
    IN  IF next.some
        THEN <<next.v>> \o descend(t, next.v.node, byte_index)
        ELSE <<>>

\* a slice left in the order it was pushed in
keep_order(s) == s

\* slice::reverse, as the reversed sequence
reversed(s) == [i \in 1..Len(s) |-> s[Len(s) + 1 - i]]

\* NodeTrace::new, parse.rs:218-226
NodeTraceNew ==
    [path |-> <<>>, nth_children |-> <<>>, trace |-> <<>>,
     is_error |-> FALSE, byte_range |-> [start |-> 0, end |-> 0]]

NoSyntaxCursor == syntax_cursor = None /\ node_trace = NodeTraceNew

\* a trace that is left as it is
keep(trace) == trace

\* NodeTrace::clear, parse.rs:228-234: the trace it leaves
clear(trace) ==
    [trace EXCEPT !.path = <<>>, !.nth_children = <<>>, !.trace = <<>>,
                  !.is_error = FALSE, !.byte_range = [start |-> 0, end |-> 0]]

\* SyntaxCursor::trace_at, parse.rs:244-273: the trace and the cursor it
\* leaves.  self.cursor.reset(self.root) puts the cursor on the root, node 1,
\* wherever it was; the pushes go onto what trace.clear() left.
trace_at(self, trace, byte_index) ==
    LET t == self.tree
        cleared == clear(trace)
        pushed == <<[node |-> 1, nth_child |-> 0]>>
                      \o descend(t, 1, byte_index)
        node == pushed[Len(pushed)].node
    IN  [trace |->
             [path |-> cleared.path
                           \o [i \in 1..Len(pushed) |-> kind(t, pushed[i].node)],
              trace |-> reversed(cleared.trace
                           \o [i \in 1..Len(pushed) |->
                                  map_node(t, pushed[i].node)]),
              nth_children |-> reversed(cleared.nth_children
                           \o [i \in 1..Len(pushed) |-> pushed[i].nth_child]),
              is_error |-> \/ cleared.is_error
                           \/ \E i \in 1..Len(pushed) :
                                  is_error(t, pushed[i].node),
              byte_range |-> [start |-> start_byte(t, node),
                              end |-> end_byte(t, node)]],
         self |-> [tree |-> t, cursor |-> node]]

(***************************************************************************)
(* The edits of a buffer and its edit tree (spec 4.2 and 4.3; the code is  *)
(* not among the sources).  A rope is its bytes.  An editing operation     *)
(* replaces a range of the staged rope by some bytes and produces the      *)
(* OpaqueDiff of that; the buffer commits diff and new rope to the edit    *)
(* tree, of which the model keeps the current branch.                      *)
(***************************************************************************)
Bytes == {"a", "b"}

Ropes == UNION {[1..n -> Bytes] : n \in 0..MaxRope}

\* text with the old_length bytes at byte_index replaced by bytes
splice(text, byte_index, old_length, bytes) ==
    SubSeq(text, 1, byte_index) \o bytes
        \o SubSeq(text, byte_index + old_length + 1, Len(text))

Revision(d, text) == [diff |-> d, rope |-> text]

\* the state of a buffer opened on any text: the edit tree is its root
InitEdits(ropes) ==
    /\ last_diff = empty
    /\ staged \in ropes
    /\ revisions = <<Revision(empty, staged)>>
    /\ current = 1

\* EditTree::commit (spec 4.3): a rope equal to the parent's makes no node
commit(d, new_rope) ==
    /\ current <= MaxRevisions
    /\ last_diff' = d
    /\ staged' = new_rope
    /\ IF new_rope = revisions[current].rope
       THEN UNCHANGED <<revisions, current>>
       ELSE /\ revisions' = Append(SubSeq(revisions, 1, current),
                                   Revision(d, new_rope))
            /\ current' = current + 1
    /\ last' = Op("commit", 0, TRUE,
                  IF new_rope = revisions[current].rope
                  THEN "none" ELSE "committed")
    /\ UNCHANGED outsideEdit

\* an editing operation of the cursor (spec 4.2): one diff, empty when the
\* operation has no net effect, and the commit of it
EditText ==
    \E byte_index \in 0..Len(staged), bytes \in Ropes :
        \E old_length \in 0..(Len(staged) - byte_index) :
            LET new_rope == splice(staged, byte_index, old_length, bytes)
            IN  /\ Len(new_rope) <= MaxRope
                /\ commit(IF new_rope = staged
                          THEN empty
                          ELSE OpaqueDiff(byte_index, old_length, Len(bytes)),
                          new_rope)

\* EditTree::undo (spec 4.3) and the buffer taking the staged rope
undo ==
    /\ IF current > 1
       THEN /\ current' = current - 1
            /\ staged' = revisions[current - 1].rope
            /\ last_diff' = reverse(revisions[current].diff)
            /\ last' = Op("undo", 0, TRUE, "moved")
       ELSE /\ last_diff' = empty
            /\ last' = Op("undo", 0, TRUE, "none")
            /\ UNCHANGED <<current, staged>>
    /\ UNCHANGED <<revisions, outsideEdit>>

\* EditTree::redo (spec 4.3) and the buffer taking the staged rope
redo ==
    /\ IF current < Len(revisions)
       THEN /\ current' = current + 1
            /\ staged' = revisions[current + 1].rope
            /\ last_diff' = revisions[current + 1].diff
            /\ last' = Op("redo", 0, TRUE, "moved")
       ELSE /\ last_diff' = empty
            /\ last' = Op("redo", 0, TRUE, "none")
            /\ UNCHANGED <<current, staged>>
    /\ UNCHANGED <<revisions, outsideEdit>>

(***************************************************************************)
(* The Editor component (editor/mod.rs): its prompt, its buffers and its   *)
(* windows, the files it looks at and the messages sent to it.  Buffers,   *)
(* WindowTree and the prompt's heights are not among the sources: a        *)
(* buffer is its id, path and text, the window tree is the views it shows  *)
(* and which one has the focus, and a height is what it was set from.      *)
(***************************************************************************)
Paths == {"a.rs", "b.txt"}

Contents == {"", "fn"}

\* What is at a path when it is opened: nothing; a file of valid UTF-8; a
\* file of other bytes; a file whose reading fails; a file that may not be
\* read; a path that cannot be resolved.
File(variant, content) == [kind |-> variant, content |-> content]

FileStates ==
    {File(k, "") : k \in {"absent", "binary", "unreadable", "denied", "broken"}}
        \cup {File("text", c) : c \in Contents}

\* File::open, editor/mod.rs:153 and 157: Ok, or the kind of the io::Error
File_open(file) ==
    CASE file.kind \in {"text", "binary", "unreadable"} -> "Ok"
      [] file.kind = "absent" -> "NotFound"
      [] file.kind = "denied" -> "PermissionDenied"
      [] OTHER -> "Other"

Loaded(ok, is_new_file, text, error, logged) ==
    [ok |-> ok, is_new_file |-> is_new_file, text |-> text, error |-> error,
     logged |-> logged]

\* a loader to which a file that is not there is an error like any other
load_strict(found, at_open) ==
    IF found
    THEN CASE File_open(at_open) # "Ok" -> Loaded(FALSE, FALSE, "", "Io", <<>>)
           [] at_open.kind = "unreadable" -> Loaded(FALSE, FALSE, "", "Io", <<>>)
           [] at_open.kind = "binary" ->
                  Loaded(FALSE, FALSE, "", "InvalidUtf8", <<>>)
           [] OTHER -> Loaded(TRUE, FALSE, at_open.content, "", <<>>)
    ELSE CASE File_open(at_open) = "Ok" ->
                  Loaded(TRUE, FALSE, "", "", <<>>)
           [] File_open(at_open) = "PermissionDenied" ->
                  Loaded(FALSE, FALSE, "", "Io", <<"Permission denied while opening">>)
           [] OTHER ->
                  Loaded(FALSE, FALSE, "", "Io", <<"Could not open">>)

\* editor/mod.rs:150-181: (is_new_file, text) or the error, and what the
\* logger was told.  found is the answer of file_path.exists(), at_open
\* what is at the path when it is opened: another process may have created,
\* replaced or removed the file in between.
load(found, at_open) ==
    IF found
    THEN CASE File_open(at_open) # "Ok" -> Loaded(FALSE, FALSE, "", "Io", <<>>)
           [] at_open.kind = "unreadable" -> Loaded(FALSE, FALSE, "", "Io", <<>>)
           [] at_open.kind = "binary" ->
                  Loaded(FALSE, FALSE, "", "InvalidUtf8", <<>>)
           [] OTHER -> Loaded(TRUE, FALSE, at_open.content, "", <<>>)
    ELSE CASE File_open(at_open) = "Ok" ->
                  Loaded(TRUE, FALSE, "", "", <<>>)
           [] File_open(at_open) = "NotFound" ->
                  Loaded(TRUE, TRUE, "", "", <<"[New file]">>)
           [] File_open(at_open) = "PermissionDenied" ->
                  Loaded(FALSE, FALSE, "", "Io", <<"Permission denied while opening">>)
           [] OTHER ->
                  Loaded(FALSE, FALSE, "", "Io", <<"Could not open">>)

\* faulty variant: no buffer is ever found to hold the path
find_by_path_never(buffers, file_path) == None

\* Buffers::find_by_path, called at editor/mod.rs:145
find_by_path(buffers, file_path) ==
    IF \E i \in 1..Len(buffers) : buffers[i].file_path = file_path
    THEN Some(CHOOSE i \in 1..Len(buffers) : buffers[i].file_path = file_path)
    ELSE None

\* Buffers::add, called at editor/mod.rs:186: the new buffer's id is its
\* position
add(buffers, text, file_path) ==
    Append(buffers, [id |-> Len(buffers) + 1, file_path |-> file_path,
                     content |-> text])

\* Editor::focus_on_buffer, editor/mod.rs:133-141
focus_on_buffer(windows, buffer_id) ==
    IF windows.views = <<>>
    THEN [views |-> <<buffer_id>>, focused |-> 1]
    ELSE [windows EXCEPT !.views[windows.focused] = buffer_id]

\* a prompt that answers a failed load by opening an empty buffer
open_file_anyway(ed, file_path, found, at_open) ==
    LET open == find_by_path(ed.buffers, file_path)
        loaded == load(found, at_open)
        buffers == add(ed.buffers, loaded.text, file_path)
    IN  IF open.some
        THEN [ok |-> TRUE, new_file |-> FALSE, logged |-> <<>>,
              buffers |-> ed.buffers,
              windows |-> focus_on_buffer(ed.windows, open.v)]
        ELSE [ok |-> loaded.ok, new_file |-> loaded.is_new_file,
              logged |-> loaded.logged,
              buffers |-> buffers,
              windows |-> focus_on_buffer(ed.windows, Len(buffers))]

\* Editor::open_file, editor/mod.rs:143-192: the Result, what the logger
\* was told, and the buffers and windows it leaves
open_file(ed, file_path, found, at_open) ==
    LET open == find_by_path(ed.buffers, file_path)
        loaded == load(found, at_open)
        buffers == add(ed.buffers, loaded.text, file_path)
    IN  IF open.some
        THEN [ok |-> TRUE, new_file |-> FALSE, logged |-> <<>>,
              buffers |-> ed.buffers,
              windows |-> focus_on_buffer(ed.windows, open.v)]
        ELSE IF ~loaded.ok
        THEN [ok |-> FALSE, new_file |-> FALSE, logged |-> loaded.logged,
              buffers |-> ed.buffers, windows |-> ed.windows]
        ELSE [ok |-> TRUE, new_file |-> loaded.is_new_file,
              logged |-> loaded.logged,
              buffers |-> buffers,
              windows |-> focus_on_buffer(ed.windows, Len(buffers))]

\* PromptAction, with the message of a Log
PromptAction(variant, message) == [kind |-> variant, message |-> message]

\* faulty variant: only the file picker counts as interactive
is_interactive_picker_only(prompt_action) == prompt_action.kind = "OpenFile"

\* PromptAction::is_interactive: the file picker and the buffer switcher
is_interactive(prompt_action) ==
    prompt_action.kind \in {"OpenFile", "SwitchBuffer"}

\* PromptAction::initial_height, by the kind of prompt it is the height of
initial_height(prompt_action) ==
    [initial |-> TRUE, of |-> prompt_action.kind, rows |-> 0]

WithPrompt(ed, prompt_action) ==
    [ed EXCEPT !.prompt_action = prompt_action,
               !.prompt_height = initial_height(prompt_action)]

\* the messages of editor/mod.rs:44-61 that the prompt, the buffers and
\* the focus answer to: the type, and the path, number or text it carries
Msg(type, path, n, text) ==
    [type |-> type, path |-> path, n |-> n, text |-> text]

EditorMessages ==
    {Msg(t, "", 0, "") : t \in {"Cancel", "OpenFilePicker",
                                "OpenBufferSwitcher", "Quit", "KeyPressed"}}
        \cup {Msg("OpenFile", p, 0, "") : p \in Paths}
        \cup {Msg("SelectBuffer", "", i, "") : i \in 1..Cardinality(Paths)}
        \cup {Msg("ChangePromptHeight", "", h, "") : h \in 1..MaxPromptRows}
        \cup {Msg("Log", "", 0, text) : text \in {"", "saved"}}

\* Editor::create, editor/mod.rs:199-216, has just run: an OpenFile message
\* is on its way if a file was named on the command line
InitEditor(files) ==
    /\ editor = [prompt_action |-> PromptAction("None", ""),
                 prompt_height |-> initial_height(PromptAction("None", "")),
                 buffers |-> <<>>,
                 windows |-> [views |-> <<>>, focused |-> 0],
                 exited |-> FALSE]
    /\ mailbox \in {<<>>} \cup {<<Msg("OpenFile", p, 0, "")>> : p \in files}

\* Editor::update, editor/mod.rs:218-321, on a message, with the rest of the
\* mailbox; found and at_open are what open_file meets at the path
update_editor(message, rest, found, at_open) ==
    /\ ~editor.exited
    /\ message.type # "OpenFile" => (~found /\ at_open = File("absent", ""))
    /\ LET ed == editor
            t == message.type
            opened == open_file(ed, message.path, found, at_open)
            logs == [i \in 1..Len(opened.logged) |-> Msg("Log", "", 0, opened.logged[i])]
        IN  /\ t = "OpenFile" => Len(rest) + Len(logs) <= MaxMailbox
            /\ editor' =
                 CASE t = "Cancel" /\ is_interactive(ed.prompt_action) ->
                        WithPrompt(ed, PromptAction("Log", "Cancel"))
                   [] t = "OpenFilePicker" /\ ~is_interactive(ed.prompt_action) ->
                        WithPrompt(ed, PromptAction("OpenFile", ""))
                   [] t = "OpenFile" ->
                        [WithPrompt(ed,
                            IF ~opened.ok
                            THEN PromptAction("Log", "Could not open file")
                            ELSE IF opened.new_file
                            THEN PromptAction("Log", "[New file]")
                            ELSE PromptAction("None", ""))
                         EXCEPT !.buffers = opened.buffers,
                                !.windows = opened.windows]
                   [] t = "OpenBufferSwitcher" /\ ~is_interactive(ed.prompt_action) ->
                        WithPrompt(ed, PromptAction("SwitchBuffer", ""))
                   [] t = "SelectBuffer" ->
                        [WithPrompt(ed, PromptAction("None", ""))
                         EXCEPT !.windows = focus_on_buffer(ed.windows, message.n)]
                   [] t = "ChangePromptHeight" ->
                        [ed EXCEPT !.prompt_height =
                            [initial |-> FALSE, of |-> "", rows |-> message.n]]
                   [] t = "Log" /\ ~is_interactive(ed.prompt_action) ->
                        WithPrompt(ed, IF message.text = ""
                                       THEN PromptAction("None", "")
                                       ELSE PromptAction("Log", message.text))
                   [] t = "Quit" -> [ed EXCEPT !.exited = TRUE]
                   [] OTHER -> ed
            /\ mailbox' = IF t = "OpenFile" THEN rest \o logs ELSE rest
            /\ last' = [op |-> "update", task_id |-> 0, ok |-> TRUE,
                        effect |-> t, path |-> message.path,
                        found |-> found, at_open |-> at_open,
                        result |-> IF t = "OpenFile"
                                   THEN IF ~opened.ok THEN "Err"
                                        ELSE IF opened.new_file
                                        THEN "Ok(true)" ELSE "Ok(false)"
                                   ELSE "none"]
    /\ UNCHANGED outsideEditor

\* a message from a key binding or from the prompt
UserMessage ==
    \E message \in EditorMessages, found \in BOOLEAN, at_open \in FileStates :
        /\ message.type = "SelectBuffer" => message.n <= Len(editor.buffers)
        /\ update_editor(message, mailbox, found, at_open)

\* a message the editor sent to itself, or was started with
QueuedMessage ==
    /\ mailbox # <<>>
    /\ \E found \in BOOLEAN, at_open \in FileStates :
           update_editor(Head(mailbox), Tail(mailbox), found, at_open)

(***************************************************************************)
(* Modes (src/mode.rs).  A string is the sequence of its characters; a     *)
(* path is its file name, if it has one, and whether that name is UTF-8.   *)
(***************************************************************************)
\* FilenamePattern::suffix and FilenamePattern::name, mode.rs:58-64
suffix(text) == [variant |-> "Suffix", text |-> text]

name(text) == [variant |-> "Name", text |-> text]

\* Mode, mode.rs:13-17; parser tells whether it is Some
Mode(mode_name, file, parser) ==
    [name |-> mode_name, file |-> file, parser |-> parser]

\* Path::file_name followed by OsStr::to_str, mode.rs:70-71 and 76-77
Path(file_name, utf8) == [file_name |-> file_name, utf8 |-> utf8]

to_str(path) ==
    IF path.file_name.some /\ path.utf8 THEN path.file_name ELSE None

\* str::ends_with
ends_with(s, tail) ==
    /\ Len(tail) <= Len(s)
    /\ SubSeq(s, Len(s) - Len(tail) + 1, Len(s)) = tail

\* faulty variant: a Name pattern matches like a Suffix pattern
matches_by_ending(pattern, filename) ==
    /\ to_str(filename).some
    /\ ends_with(to_str(filename).v, pattern.text)

\* FilenamePattern::matches, mode.rs:66-81
matches(pattern, filename) ==
    /\ to_str(filename).some
    /\ IF pattern.variant = "Suffix"
       THEN ends_with(to_str(filename).v, pattern.text)
       ELSE to_str(filename).v = pattern.text

\* Mode::matches_by_filename, mode.rs:35-39
matches_by_filename(mode, filename) ==
    \E i \in 1..Len(mode.file) : matches(mode.file[i], filename)

\* LANGUAGE_MODES, mode.rs:91-238
LANGUAGE_MODES ==
    <<
      Mode("Shell Script",
             <<suffix(<<".", "s", "h">>)>>,
             TRUE),
      Mode("Rust",
             <<suffix(<<".", "r", "s">>)>>,
             TRUE),
      Mode("Python",
             <<suffix(<<".", "p", "y">>),
               suffix(<<".", "p", "y", "3">>),
               suffix(<<".", "p", "y", "2">>),
               suffix(<<".", "p", "y", "i">>),
               suffix(<<".", "p", "y", "x">>),
               suffix(<<".", "p", "y", "x", ".", "i", "n">>),
               suffix(<<".", "p", "x", "d">>),
               suffix(<<".", "p", "x", "d", ".", "i", "n">>),
               suffix(<<".", "p", "x", "i">>),
               suffix(<<".", "p", "x", "i", ".", "i", "n">>),
               suffix(<<".", "r", "p", "y">>),
               suffix(<<".", "c", "p", "y">>)>>,
             TRUE),
      Mode("Javascript",
             <<suffix(<<".", "j", "s">>)>>,
             TRUE),
      Mode("HTML",
             <<suffix(<<".", "h", "t", "m", "l">>),
               suffix(<<".", "h", "t", "m">>),
               suffix(<<".", "x", "h", "t", "m", "l">>),
               suffix(<<".", "s", "h", "t", "m", "l">>)>>,
             TRUE),
      Mode("JSON",
             <<suffix(<<".", "j", "s", "o", "n">>),
               suffix(<<".", "j", "s", "o", "n", "l">>)>>,
             TRUE),
      Mode("C",
             <<suffix(<<".", "c">>),
               suffix(<<".", "h">>)>>,
             TRUE),
      Mode("C++",
             <<suffix(<<".", "c", "p", "p">>),
               suffix(<<".", "c", "c">>),
               suffix(<<".", "c", "p">>),
               suffix(<<".", "c", "x", "x">>),
               suffix(<<".", "c", "+", "+">>),
               suffix(<<".", "C">>),
               suffix(<<".", "h">>),
               suffix(<<".", "h", "h">>),
               suffix(<<".", "h", "p", "p">>),
               suffix(<<".", "h", "x", "x">>),
               suffix(<<".", "h", "+", "+">>),
               suffix(<<".", "i", "n", "l">>),
               suffix(<<".", "i", "p", "p">>)>>,
             TRUE),
      Mode("CSS",
             <<suffix(<<".", "c", "s", "s">>)>>,
             TRUE),
      Mode("Markdown",
             <<suffix(<<".", "m", "d">>)>>,
             TRUE),
      Mode("Typescript",
             <<suffix(<<".", "t", "s">>)>>,
             TRUE),
      Mode("Typescript TSX",
             <<suffix(<<".", "t", "s", "x">>)>>,
             TRUE),
      Mode("Dockerfile",
             <<name(<<"D", "o", "c", "k", "e", "r", "f", "i", "l", "e">>)>>,
             FALSE),
      Mode("Go",
             <<suffix(<<".", "g", "o">>)>>,
             TRUE)
    >>

\* PLAIN_TEXT_MODE, mode.rs:240, and Mode::default, mode.rs:42-50
PLAIN_TEXT_MODE == Mode("Plain", <<>>, FALSE)

\* find_by_filename, mode.rs:84-89: the first mode of the table that matches
find_by_filename(filename) ==
    LET hits == {i \in 1..Len(LANGUAGE_MODES) :
                    matches_by_filename(LANGUAGE_MODES[i], filename)}
    IN  IF hits = {}
        THEN PLAIN_TEXT_MODE
        ELSE LANGUAGE_MODES[CHOOSE i \in hits : \A j \in hits : i <= j]

\* file names put together from n pieces: the texts of all patterns of the
\* table, two endings of no mode and a letter
RECURSIVE Joined(_)
Joined(n) ==
    LET pieces ==
            UNION {{LANGUAGE_MODES[i].file[j].text :
                       j \in 1..Len(LANGUAGE_MODES[i].file)} :
                      i \in 1..Len(LANGUAGE_MODES)}
                \cup {<<>>, <<".", "i", "n">>, <<".", "H">>, <<"a">>}
    IN  IF n = 0 THEN {<<>>} ELSE {s \o q : s \in Joined(n - 1), q \in pieces}

\* the paths looked up: with a file name of up to MaxPieces pieces, UTF-8 or
\* not, and without a file name (as "..")
Filenames ==
    {Path(Some(s), u) : s \in Joined(MaxPieces) \ {<<>>}, u \in BOOLEAN}
        \cup {Path(None, TRUE)}

\* a file name to look up, and the mode once find_by_filename has returned
InitLookup(filenames) == lookup \in [filename : filenames, mode : {None}]

\* the call of find_by_filename
FindByFilename ==
    /\ ~lookup.mode.some
    /\ lookup' = [lookup EXCEPT !.mode = Some(find_by_filename(lookup.filename))]
    /\ UNCHANGED outsideMode

(***************************************************************************)
(* Buffer::input_binding (buffer/mod.rs:268-409): the key sequences of the *)
(* buffer, the cursor operations they invoke and the messages they send.   *)
(* DISABLE_TABS is a constant of editor::buffer; input_binding is modelled *)
(* for either value of it.                                                 *)
(***************************************************************************)
\* zi's Key: Ctrl, Alt and Char carry a character, the others none
Key(variant, c) == [variant |-> variant, c |-> c]

Ctrl(c) == Key("Ctrl", c)

Alt(c) == Key("Alt", c)

Char(c) == Key("Char", c)

\* the characters of the bindings, and "j", which is in no binding
Characters ==
    {"p", "n", "b", "f", "v", "a", "e", "d", "k", " ", "g", "x", "w", "y", "_",
     "z", "/", "q", "s", "u", "l", "h", "<", ">", "\n", "\t", "j"}

\* the keys pressed: every key of a binding, Esc, and Ctrl, Alt and Char
\* with a character that no binding gives them
Keys ==
    {Ctrl(c) : c \in Characters \ {"h", "<", ">", "\n", "\t"}}
        \cup {Alt(c) : c \in {"v", "<", ">", "w", "j"}}
        \cup {Char(c) : c \in {"\n", "\t", "h", "s", "u", "j"}}
        \cup {Key(k, "") : k \in {"Up", "Down", "Left", "Right", "PageDown",
                                 "PageUp", "Home", "End", "Delete", "Backspace",
                                 "Null", "Esc"}}

\* one arm of a match: the slices it matches, its guard and what it does
Arm(slices, guard, does) == [slices |-> slices, guard |-> guard, does |-> does]

\* the arms of the first match, buffer/mod.rs:271-355, in order
CursorArms(viewing_edit_tree, DISABLE_TABS) ==
    <<Arm({<<Ctrl("p")>>, <<Key("Up", "")>>}, ~viewing_edit_tree, "move_up"),
      Arm({<<Ctrl("n")>>, <<Key("Down", "")>>}, ~viewing_edit_tree, "move_down"),
      Arm({<<Ctrl("b")>>, <<Key("Left", "")>>}, ~viewing_edit_tree, "move_left"),
      Arm({<<Ctrl("f")>>, <<Key("Right", "")>>}, ~viewing_edit_tree, "move_right"),
      Arm({<<Ctrl("v")>>, <<Key("PageDown", "")>>}, TRUE, "move_down_n"),
      Arm({<<Alt("v")>>, <<Key("PageUp", "")>>}, TRUE, "move_up_n"),
      Arm({<<Ctrl("a")>>, <<Key("Home", "")>>}, TRUE, "move_to_start_of_line"),
      Arm({<<Ctrl("e")>>, <<Key("End", "")>>}, TRUE, "move_to_end_of_line"),
      Arm({<<Alt("<")>>}, TRUE, "move_to_start_of_buffer"),
      Arm({<<Alt(">")>>}, TRUE, "move_to_end_of_buffer"),
      Arm({<<Ctrl("d")>>, <<Key("Delete", "")>>}, TRUE, "delete_forward"),
      Arm({<<Key("Backspace", "")>>}, TRUE, "delete_backward"),
      Arm({<<Ctrl("k")>>}, TRUE, "delete_line"),
      Arm({<<Char("\n")>>}, TRUE, "insert_new_line"),
      Arm({<<Char("\t")>>}, DISABLE_TABS, "insert_tab"),
      Arm({<<Char(c)>> : c \in Characters \ {"\n"}}, TRUE, "insert_char"),
      Arm({<<Key("Null", "")>>, <<Ctrl(" ")>>}, TRUE, "begin_selection"),
      Arm({<<Ctrl("g")>>}, ~viewing_edit_tree, "clear_selection"),
      Arm({<<Ctrl("x"), Char("h")>>}, TRUE, "select_all"),
      Arm({<<Alt("w")>>}, TRUE, "copy_selection_to_clipboard"),
      Arm({<<Ctrl("w")>>}, TRUE, "cut_selection_to_clipboard"),
      Arm({<<Ctrl("y")>>}, TRUE, "paste_from_clipboard"),
      Arm({<<Ctrl("_")>>, <<Ctrl("z")>>, <<Ctrl("/")>>}, TRUE, "undo"),
      Arm({<<Ctrl("q")>>}, TRUE, "redo"),
      Arm({<<Ctrl("x"), Ctrl("s")>>, <<Ctrl("x"), Char("s")>>}, TRUE, "save")>>

\* the arms of the second match that make a message, buffer/mod.rs:365-384
MessageArms(viewing_edit_tree) ==
    <<Arm({<<Ctrl("l")>>}, TRUE, "CenterCursorVisually"),
      Arm({<<Ctrl("x"), Char("u")>>, <<Ctrl("x"), Ctrl("u")>>}, TRUE,
          "ToggleEditTree"),
      Arm({<<Ctrl("p")>>, <<Key("Up", "")>>}, viewing_edit_tree, "Up"),
      Arm({<<Ctrl("n")>>, <<Key("Down", "")>>}, viewing_edit_tree, "Down"),
      Arm({<<Ctrl("b")>>, <<Key("Left", "")>>}, viewing_edit_tree, "Left"),
      Arm({<<Ctrl("f")>>, <<Key("Right", "")>>}, viewing_edit_tree, "Right"),
      Arm({<<Ctrl("g")>>}, viewing_edit_tree, "ClearSelection")>>

\* faulty variant: the guards of the arms are not looked at
FirstArmUnguarded(arms, pressed) ==
    LET hits == {i \in 1..Len(arms) : pressed \in arms[i].slices}
    IN  IF hits = {}
        THEN None
        ELSE Some(arms[CHOOSE i \in hits : \A j \in hits : i <= j])

\* a match: the first arm that the pressed keys satisfy, if any
FirstArm(arms, pressed) ==
    LET hits == {i \in 1..Len(arms) :
                    pressed \in arms[i].slices /\ arms[i].guard}
    IN  IF hits = {}
        THEN None
        ELSE Some(arms[CHOOSE i \in hits : \A j \in hits : i <= j])

\* faulty variant: every arm that matches runs, not the first alone
every_cursor_operation(viewing_edit_tree, DISABLE_TABS, pressed) ==
    LET arms == CursorArms(viewing_edit_tree, DISABLE_TABS)
        hits == {i \in 1..Len(arms) :
                    pressed \in arms[i].slices /\ arms[i].guard}
        nth(n) == CHOOSE i \in hits : Cardinality({j \in hits : j < i}) = n - 1
    IN  [n \in 1..Cardinality(hits) |-> arms[nth(n)].does]

\* the first match, buffer/mod.rs:271-355: the cursor operations invoked
cursor_operations(viewing_edit_tree, DISABLE_TABS, pressed) ==
    LET arm == FirstArm(CursorArms(viewing_edit_tree, DISABLE_TABS), pressed)
    IN  IF arm.some THEN <<arm.v.does>> ELSE <<>>

BindingMatch(transition, message, invoked) ==
    [transition |-> transition, message |-> message, invoked |-> invoked]

\* faulty variant: keys that are bound to nothing are waited on
messages_or_continue(viewing_edit_tree, pressed) ==
    LET arm == FirstArm(MessageArms(viewing_edit_tree), pressed)
    IN  IF arm.some
        THEN BindingMatch("Clear", Some(arm.v.does), <<>>)
        ELSE BindingMatch("Continue", None, <<>>)

\* the second match and what follows it, buffer/mod.rs:363-407
messages(viewing_edit_tree, pressed) ==
    LET arm == FirstArm(MessageArms(viewing_edit_tree), pressed)
    IN  IF arm.some
        THEN BindingMatch("Clear", Some(arm.v.does), <<>>)
        ELSE IF pressed = <<Ctrl("x")>>
        THEN BindingMatch("Continue", None, <<>>)
        ELSE BindingMatch("Clear", None, <<>>)

\* Buffer::input_binding, buffer/mod.rs:268-409: the BindingMatch returned
\* and the cursor operations invoked on the way
input_binding(viewing_edit_tree, DISABLE_TABS, pressed) ==
    LET invoked == cursor_operations(viewing_edit_tree, DISABLE_TABS, pressed)
    IN  IF invoked # <<>>
        THEN BindingMatch("Clear", None, invoked)
        ELSE messages(viewing_edit_tree, pressed)

\* the slices of up to n keys handed to input_binding
RECURSIVE Pressed(_)
Pressed(n) ==
    IF n = 0
    THEN {<<>>}
    ELSE Pressed(n - 1) \cup {Append(s, k) : s \in Pressed(n - 1), k \in Keys}

\* the buffer's view of the edit tree, the build's DISABLE_TABS, the keys
\* pressed and, once input_binding has returned, its result
NoBinding ==
    binding = [viewing_edit_tree |-> FALSE, DISABLE_TABS |-> FALSE,
               pressed |-> <<>>, result |-> None]

InitBinding ==
    binding \in [viewing_edit_tree : BOOLEAN, DISABLE_TABS : BOOLEAN,
                 pressed : Pressed(MaxPressed), result : {None}]

\* the call of input_binding
InputBinding ==
    /\ ~binding.result.some
    /\ binding' =
         [binding EXCEPT !.result =
             Some(input_binding(binding.viewing_edit_tree,
                                binding.DISABLE_TABS, binding.pressed))]
    /\ UNCHANGED outsideKeys

(***************************************************************************)
(* The terminal front end's input (termion.rs:147-200).  A thread reads    *)
(* the terminal's events one by one, translates each key with map_key and  *)
(* sends it into a bounded channel of MaxChannel slots; the application    *)
(* receives from the other end.  A termion key is a variant and what it carries: F carries   *)
(* a number, written as its digits, Char, Alt and Ctrl carry a character,  *)
(* the others nothing.  "Unlisted" stands for the variants of termion's    *)
(* Key that map_key has no arm for.                                        *)
(***************************************************************************)
\* what reader.keys() can yield: a key, or an error of the read
TermionEvents ==
    {[ok |-> TRUE, key |-> [termion |-> v, arg |-> ""]] :
        v \in {"Backspace", "Left", "Right", "Up", "Down", "Home", "End",
               "PageUp", "PageDown", "BackTab", "Delete", "Insert", "Null",
               "Esc", "Unlisted"}}
        \cup {[ok |-> TRUE, key |-> [termion |-> "F", arg |-> n]] :
                n \in {"1", "12"}}
        \cup {[ok |-> TRUE, key |-> [termion |-> v, arg |-> c]] :
                v \in {"Char", "Alt", "Ctrl"}, c \in {"a", "\t"}}
        \cup {[ok |-> FALSE, key |-> [termion |-> "", arg |-> ""]]}

\* faulty variant: every key is passed on as the character it carries
map_key_unnamed(key) == Some(Char(key.arg))

\* termion.rs:177-200, arm by arm; None is the panic of the last arm
map_key(key) ==
    CASE key.termion = "Backspace" -> Some(Key("Backspace", ""))
      [] key.termion = "Left" -> Some(Key("Left", ""))
      [] key.termion = "Right" -> Some(Key("Right", ""))
      [] key.termion = "Up" -> Some(Key("Up", ""))
      [] key.termion = "Down" -> Some(Key("Down", ""))
      [] key.termion = "Home" -> Some(Key("Home", ""))
      [] key.termion = "End" -> Some(Key("End", ""))
      [] key.termion = "PageUp" -> Some(Key("PageUp", ""))
      [] key.termion = "PageDown" -> Some(Key("PageDown", ""))
      [] key.termion = "BackTab" -> Some(Key("BackTab", ""))
      [] key.termion = "Delete" -> Some(Key("Delete", ""))
      [] key.termion = "Insert" -> Some(Key("Insert", ""))
      [] key.termion = "F" -> Some(Key("F", key.arg))
      [] key.termion = "Char" -> Some(Char(key.arg))
      [] key.termion = "Alt" -> Some(Alt(key.arg))
      [] key.termion = "Ctrl" -> Some(Ctrl(key.arg))
      [] key.termion = "Null" -> Some(Key("Null", ""))
      [] key.termion = "Esc" -> Some(Key("Esc", ""))
      [] OTHER -> None

\* faulty variant: a key sent into a full channel is dropped
send_or_drop(channel, key) ==
    IF Len(channel) < MaxChannel THEN Some(Append(channel, key)) ELSE Some(channel)

\* termion.rs:158, Sender::send on the bounded channel of line 153: the
\* channel with the key at its end, or None while the channel is full and
\* the sender waits
send(channel, key) ==
    IF Len(channel) < MaxChannel THEN Some(Append(channel, key)) ELSE None

\* Input::from_reader has returned: the thread reads, nothing was sent
NoInput ==
    input = [read |-> <<>>, channel |-> <<>>, received |-> <<>>,
             receiver |-> TRUE, thread |-> "reading"]

\* termion.rs:154-165, one turn of the thread's loop.  A send into a full
\* channel waits; a send after the receiver was dropped fails.
from_reader(event) ==
    /\ input.thread = "reading"
    /\ Len(input.read) < MaxKeysRead
    /\ LET key == map_key(event.key)
           reading == [input EXCEPT !.read = Append(@, event)]
       IN  IF ~event.ok
           THEN input' = [reading EXCEPT !.thread = "panicked at unwrap"]
           ELSE IF ~key.some
           THEN input' = [reading EXCEPT !.thread = "panicked in map_key"]
           ELSE IF ~input.receiver
           THEN input' = [reading EXCEPT !.thread = "panicked at send"]
           ELSE /\ send(input.channel, key.v).some
                /\ input' = [reading EXCEPT
                                !.channel = send(input.channel, key.v).v]
    /\ UNCHANGED outsideInput

\* termion.rs:81-84: the application takes the next key from events()
events ==
    /\ input.receiver
    /\ input.channel # <<>>
    /\ input' = [input EXCEPT !.channel = Tail(@),
                              !.received = Append(@, Head(input.channel))]
    /\ UNCHANGED outsideInput

\* termion.rs:147-150: the Termion front end is dropped and with it the
\* receiver; the thread, which nothing joins, goes on
DropInput ==
    /\ input.receiver
    /\ input' = [input EXCEPT !.receiver = FALSE]
    /\ UNCHANGED outsideInput

(***************************************************************************)
(* The specifications.  Each one runs one part of the program and leaves   *)
(* the others as they are before anything is done with them.               *)
(***************************************************************************)
\* a SyntaxTree just made for an empty buffer with a grammar
IdleSyntaxTree ==
    /\ InitSyntaxTree(0, 0, FALSE)
    /\ language_ok
    /\ rope.len = 0

\* all parts of the program but one at rest
AtRest(part) ==
    /\ part = "syntax" \/ IdleSyntaxTree
    /\ part = "view" \/ NoBuffer
    /\ part = "trace" \/ NoSyntaxCursor
    /\ part = "edit" \/ InitEdits({<<>>})
    /\ part = "editor" \/ InitEditor({})
    /\ part = "mode" \/ InitLookup({Path(None, TRUE)})
    /\ part = "keys" \/ NoBinding
    /\ part = "input" \/ NoInput

Init ==
    /\ InitSyntaxTree(MaxEdits, MaxTasks, TRUE)
    /\ AtRest("syntax")

Next ==
    \* the buffer edits its rope and tells the tree
    \/ /\ Alive
       /\ \E diff \in Diffs(rope.len) : edit(diff)
       /\ UNCHANGED <<pc, peak, outsideSyntax>>
    \* the buffer spawns a parse of its current rope
    \/ /\ Alive
       /\ \E fresh \in BOOLEAN, sched_ok \in BOOLEAN :
              spawn_parse_task("spawn", rope, fresh, sched_ok)
       /\ UNCHANGED <<pc, peak, outsideSyntax>>
    \/ ensure_tree /\ UNCHANGED <<pc, peak, outsideSyntax>>
    \/ ParseFinish /\ UNCHANGED <<pc, peak, outsideSyntax>>
    \/ handle_parse_syntax_done /\ UNCHANGED <<pc, peak, outsideSyntax>>

Spec == Init /\ [][Next]_vars

(***************************************************************************)
(* The SyntaxTree while characters are typed into an empty buffer with a   *)
(* grammar attached: every typed character is followed, in the same        *)
(* handler on the UI thread, by SyntaxTree::edit(diff) and                 *)
(* spawn_parse_task(new_rope, fresh = false), and every spawn succeeds.    *)
(* Workers finish tasks at any time; completions are handled between       *)
(* handlers.                                                               *)
(***************************************************************************)
BurstInit ==
    /\ InitSyntaxTree(MaxBurst, MaxBurst + 1, FALSE)
    /\ language_ok
    /\ rope.len = 0
    /\ AtRest("syntax")

BurstEdit ==
    /\ pc = "idle"
    /\ Alive
    /\ next_task_id <= limits.tasks
    /\ edit(OpaqueDiff(rope.len, 0, 1))
    /\ pc' = "edited"
    /\ UNCHANGED <<peak, outsideSyntax>>

BurstSpawn ==
    /\ pc = "edited"
    /\ Alive
    /\ spawn_parse_task("spawn", rope, FALSE, TRUE)
    /\ pc' = "idle"
    /\ peak' = [constructed |-> peak.constructed + Cardinality(
                     {t \in running' \ running : t.parser \notin LiveParsers}),
                 unhandled |-> Max(peak.unhandled,
                                   Cardinality(running') + Len(inbox'))]
    /\ UNCHANGED outsideSyntax

BurstParseFinish == ParseFinish /\ UNCHANGED <<pc, peak, outsideSyntax>>

BurstDone ==
    /\ pc = "idle"
    /\ handle_parse_syntax_done
    /\ UNCHANGED <<pc, peak, outsideSyntax>>

BurstNext ==
    \/ BurstEdit
    \/ BurstSpawn
    \/ /\ pc = "idle"
       /\ ensure_tree
       /\ peak' = [constructed |-> peak.constructed + Cardinality(
                      {t \in running' \ running : t.parser \notin LiveParsers}),
                  unhandled |-> Max(peak.unhandled,
                                    Cardinality(running') + Len(inbox'))]
       /\ UNCHANGED <<pc, outsideSyntax>>
    \/ BurstParseFinish
    \/ BurstDone

BurstSpec == BurstInit /\ [][BurstNext]_vars

\* The handler that edited goes on to spawn, workers finish the tasks they
\* were given, and the UI thread drains its messages.
FairBurstSpec ==
    /\ BurstSpec
    /\ WF_vars(BurstSpawn)
    /\ WF_vars(BurstParseFinish)
    /\ WF_vars(BurstDone)

(***************************************************************************)
(* The SyntaxTree of a buffer that is parsed once, by ensure_tree, and     *)
(* edited any number of times before, while and after that.                *)
(***************************************************************************)
EditedTreeNext ==
    \/ /\ Alive
       /\ \E diff \in Diffs(rope.len) : edit(diff)
       /\ UNCHANGED <<pc, peak, outsideSyntax>>
    \/ ensure_tree /\ UNCHANGED <<pc, peak, outsideSyntax>>
    \/ ParseFinish /\ UNCHANGED <<pc, peak, outsideSyntax>>
    \/ handle_parse_syntax_done /\ UNCHANGED <<pc, peak, outsideSyntax>>

EditedTreeSpec ==
    AtRest("syntax") /\ InitSyntaxTree(MaxAdjust, 1, FALSE)
        /\ [][EditedTreeNext]_vars

(***************************************************************************)
(* The Buffer component on its own: the framework creates it, hands it     *)
(* new properties and frames, and delivers its messages.                   *)
(***************************************************************************)
ViewNext ==
    \/ \E properties \in PropertiesSet, frame_height \in Heights :
            create(properties, frame_height)
    \/ \E properties \in PropertiesSet : change(properties)
    \/ \E frame_height \in Heights : resize(frame_height)
    \/ \E message \in Message : update(message)

ViewSpec == AtRest("none") /\ [][ViewNext]_vars

(***************************************************************************)
(* A SyntaxCursor over any tree, asked for traces at any byte.             *)
(***************************************************************************)
TraceNext ==
    \* a caller asks for the trace at a byte, handing in the trace it keeps
    \/ /\ syntax_cursor.some
       /\ \E byte_index \in 0..MaxNodes :
             LET left == trace_at(syntax_cursor.v, node_trace, byte_index)
             IN  /\ node_trace' = left.trace
                 /\ syntax_cursor' = Some(left.self)
                 /\ last' = [op |-> "trace_at", task_id |-> 0, ok |-> TRUE,
                             effect |-> "none", byte_index |-> byte_index,
                             reused |-> node_trace # NodeTraceNew]
       /\ UNCHANGED outsideTrace
    \* a caller clears the trace it keeps
    \/ /\ syntax_cursor.some
       /\ node_trace # NodeTraceNew
       /\ node_trace' = clear(node_trace)
       /\ last' = Op("clear", 0, TRUE, "none")
       /\ UNCHANGED <<outsideTrace, syntax_cursor>>

TraceSpec ==
    /\ AtRest("trace")
    /\ syntax_cursor \in {Some([tree |-> t, cursor |-> 1]) : t \in Trees}
    /\ node_trace = NodeTraceNew
    /\ [][TraceNext]_vars

(***************************************************************************)
(* OpaqueDiff on its own: diffs of any three numbers, reversed any number  *)
(* of times.                                                               *)
(***************************************************************************)
DiffNext ==
    \* OpaqueDiff::new, parse.rs:177-183
    \/ /\ \E b \in 0..MaxDiff, o \in 0..MaxDiff, n \in 0..MaxDiff :
              last_diff' = OpaqueDiff(b, o, n)
       /\ last' = Op("diff_new", 0, TRUE, "none")
       /\ UNCHANGED <<staged, revisions, current, outsideEdit>>
    \* OpaqueDiff::empty, parse.rs:186-192
    \/ /\ last_diff' = empty
       /\ last' = Op("diff_empty", 0, TRUE, "none")
       /\ UNCHANGED <<staged, revisions, current, outsideEdit>>
    \* OpaqueDiff::reverse, parse.rs:200-206
    \/ /\ last_diff' = reverse(last_diff)
       /\ last' = [op |-> "diff_reverse", task_id |-> 0, ok |-> TRUE,
                   effect |-> "none", of |-> last_diff]
       /\ UNCHANGED <<staged, revisions, current, outsideEdit>>

DiffSpec == AtRest("none") /\ [][DiffNext]_vars

(***************************************************************************)
(* A buffer being edited, with undo and redo.                              *)
(***************************************************************************)
EditNext ==
    \/ EditText
    \/ undo
    \/ redo

EditSpec == AtRest("edit") /\ InitEdits(Ropes) /\ [][EditNext]_vars

(***************************************************************************)
(* The Editor handling messages, with files of any kind at the paths.      *)
(***************************************************************************)
EditorNext ==
    \/ UserMessage
    \/ QueuedMessage

EditorSpec == AtRest("editor") /\ InitEditor(Paths) /\ [][EditorNext]_vars

(***************************************************************************)
(* Modes looked up by file name.                                           *)
(***************************************************************************)
ModeSpec == AtRest("mode") /\ InitLookup(Filenames) /\ [][FindByFilename]_vars

(***************************************************************************)
(* Key slices handed to Buffer::input_binding.                             *)
(***************************************************************************)
KeySpec == AtRest("keys") /\ InitBinding /\ [][InputBinding]_vars

(***************************************************************************)
(* The input thread and the receiving end of its channel.                  *)
(***************************************************************************)
InputNext ==
    \/ \E event \in TermionEvents : from_reader(event)
    \/ events
    \/ DropInput

InputSpec == AtRest("input") /\ NoInput /\ [][InputNext]_vars

(***************************************************************************)
(* Properties of the SyntaxTree.                                           *)
(***************************************************************************)
\* The parse tasks whose completion has not been handled: running, or done
\* with the message still in the inbox.
Unhandled ==
    {[task_id |-> t.task_id, parser |-> t.parser] : t \in running} \cup
    {[task_id |-> inbox[i].task_id, parser |-> inbox[i].parser] : i \in 1..Len(inbox)}

Recorded ==
    {t \in Unhandled : /\ current_parse_task.some
                       /\ current_parse_task.v.task_id = t.task_id}

\* C1: at most one unhandled task is the one recorded as current_parse_task,
\* and a handle_parse_syntax_done step for a task id that is not the recorded
\* one (or with none recorded) leaves the cached tree and current_parse_task
\* as they were.
C1_CancelInvariant ==
    /\ [](Cardinality(Recorded) <= 1)
    /\ [][ ( /\ last'.op = "done"
             /\ ~( /\ current_parse_task.some
                   /\ current_parse_task.v.task_id = last'.task_id ) )
           => ( tree' = tree /\ current_parse_task' = current_parse_task ) ]_vars

\* The completion of a superseded task, carrying a tree, has been discarded
\* while a later task is recorded.
C1_Witness ==
    /\ last.op = "done" /\ last.effect = "discarded"
    /\ current_parse_task.some
    /\ last.task_id < current_parse_task.v.task_id

\* C2: a tree is installed only from the latest task the scheduler accepted,
\* and it is the tree of the rope that task was spawned with.
C2_LatestSnapshotWins ==
    (last.op = "done" /\ last.effect = "installed")
        => /\ last.task_id = (next_task_id - 1)
           /\ tree.some /\ spawned.some
           /\ tree.v.ver = spawned.v.ver

\* The second task's tree has been installed after the first task's
\* completion, which arrived first, was handled.
C2_Witness ==
    /\ last.op = "done" /\ last.effect = "installed"
    /\ last.task_id = 2
    /\ Len(parsers) = 2
    /\ tree.v.ver = rope.ver /\ rope.ver > 0

\* C3: in a burst of edits that each spawn a parse, once no further task is
\* spawned the SyntaxTree reaches, and stays in, a state with no recorded
\* task and with the tree parsed from the rope of the last spawn, which is
\* the buffer's final rope.
C3_EventualInstallation ==
    \A t \in 1..(MaxBurst + 1) :
        <>[]((next_task_id - 1) = t /\ pc = "idle")
            => <>[]( /\ ~current_parse_task.some
                     /\ tree.some
                     /\ tree.v.ver = spawned.v.ver
                     /\ tree.v.ver = rope.ver )

\* After two edits the tree of the second edit's rope is installed, no task
\* is recorded and the completions of the superseded tasks have been handled.
C3_Witness ==
    /\ rope.ver = 2 /\ (next_task_id - 1) >= 2
    /\ ~current_parse_task.some
    /\ tree.some /\ tree.v.ver = 2
    /\ running = {} /\ inbox = <<>>
    /\ last.op = "done" /\ last.effect \in {"discarded", "discarded_cancelled"}

C5_OneOutstanding == Cardinality(Unhandled) <= 1

\* C5, amended: at most one unhandled parse task has its cancel flag unset,
\* and it is the recorded one; every other unhandled task has been told to
\* stop.
C5_OneLiveTask ==
    \A t \in Unhandled :
        flag[t.parser] = CANCEL_FLAG_UNSET
            => /\ current_parse_task.some
               /\ current_parse_task.v.task_id = t.task_id
               /\ current_parse_task.v.flag = t.parser

\* Three tasks are unhandled: the latest is recorded, the other two have
\* their flags set.
C5_Witness ==
    /\ Cardinality(Unhandled) = 3
    /\ current_parse_task.some /\ current_parse_task.v.task_id = (next_task_id - 1)
    /\ Cardinality({t \in Unhandled : flag[t.parser] = CANCEL_FLAG_SET}) = 2

\* C6: a spawn_parse_task that returns an error leaves the cached tree,
\* current_parse_task, the pool and every cancel flag as they were.
C6_ErrorsNeverMutate ==
    [][ (last'.op \in {"spawn", "ensure_tree"} /\ ~last'.ok)
           => /\ tree' = tree
              /\ current_parse_task' = current_parse_task
              /\ parsers' = parsers
              /\ flag' = flag ]_vars

\* C7: ensure_tree calls spawn_parse_task (and with it the snapshot function)
\* exactly when there is neither a cached tree nor a recorded task; the task
\* it starts is fresh, has no hint, parses the buffer's rope and is recorded;
\* in every other state it changes nothing.
C7_EnsureTree ==
    [][ last'.op = "ensure_tree"
           => IF ~tree.some /\ ~current_parse_task.some
              THEN /\ last'.effect \in {"spawned", "error"}
                   /\ last'.effect = "spawned"
                        => /\ Cardinality(running' \ running) = 1
                           /\ \A t \in running' \ running :
                                /\ t.fresh /\ ~t.hint.some /\ t.text = rope
                                /\ current_parse_task'.some
                                /\ current_parse_task'.v.task_id = t.task_id
              ELSE /\ last'.effect = "none"
                   /\ tree' = tree
                   /\ current_parse_task' = current_parse_task
                   /\ parsers' = parsers
                   /\ running' = running /\ inbox' = inbox ]_vars

\* ensure_tree has started the first parse of an edited buffer.
C7_Witness ==
    /\ last.op = "ensure_tree" /\ last.effect = "spawned"
    /\ rope.ver > 0
    /\ \E t \in running : t.task_id = last.task_id /\ t.fresh

(***************************************************************************)
(* Properties of the Buffer component's scrolling.                         *)
(***************************************************************************)
\* the state right after ensure_cursor_in_view ran, in create, change or resize
AfterEnsureCursorInView ==
    buffer.some /\ last.op \in {"create", "change", "resize"}

\* C8 as claimed: after ensure_cursor_in_view, whatever the frame height,
\* the cursor line is in [line_offset, line_offset + visible_rows), with
\* visible_rows the frame height less the status bar row, or the content
\* has fewer lines than that.
C8_ScrollInvariantAnyHeight ==
    AfterEnsureCursorInView =>
        LET b == buffer.v
            L == b.properties.cursor_line
            visible_rows == num_lines(b.frame_height)
        IN  \/ b.line_offset <= L /\ L < b.line_offset + visible_rows
            \/ b.properties.len_lines < visible_rows

\* C8, amended: after ensure_cursor_in_view the cursor line is in
\* [line_offset, line_offset + visible_rows) for every frame height of at
\* least 2; a frame of height 0 or 1 has no visible row, and line_offset is
\* left at the cursor line or one past it.
C8_ScrollInvariant ==
    AfterEnsureCursorInView =>
        LET b == buffer.v
            L == b.properties.cursor_line
        IN  IF b.frame_height >= 2
            THEN /\ b.line_offset <= L
                 /\ L < b.line_offset + (b.frame_height - 1)
            ELSE b.line_offset \in {L, L + 1}

\* New properties moved the cursor below the window and the view scrolled
\* down until the cursor line was its last visible row.
C8_Witness ==
    /\ buffer.some /\ last.op = "change"
    /\ buffer.v.frame_height >= 3
    /\ buffer.v.line_offset > 0
    /\ buffer.v.properties.cursor_line
           = buffer.v.line_offset + buffer.v.frame_height - 2

\* C9 as claimed: with the cursor line L and the frame unchanged, the k-th
\* CenterCursorVisually in a row leaves line_offset at max(0, L - H/2) for
\* k = 1, 4, .., at L for k = 2, 5, .., and at 0 for k = 3, 6, .., where H
\* is the number of visible rows.
C9_CenterCycle ==
    (buffer.some /\ centers >= 1) =>
        LET b == buffer.v
            L == b.properties.cursor_line
            H == num_lines(b.frame_height)
        IN  b.line_offset =
                CASE centers % 3 = 1 -> Max(0, L - H \div 2)
                  [] centers % 3 = 2 -> L
                  [] OTHER -> 0

(***************************************************************************)
(* Properties of SyntaxCursor::trace_at.                                   *)
(***************************************************************************)
\* the nodes from the root down to x
RECURSIVE RootPath(_, _)
RootPath(t, x) ==
    IF x <= 1 THEN <<1>> ELSE RootPath(t, t.parent[x]) \o <<x>>

\* P is the descent for byte_index: from the root, each next node is the
\* first child that extends beyond byte_index, until there is none
IsDescent(t, P, byte_index) ==
    /\ P[1] = 1
    /\ \A i \in 2..Len(P) :
          /\ P[i] \in children(t, P[i - 1])
          /\ end_byte(t, P[i]) > byte_index
          /\ \A c \in children(t, P[i - 1]) :
                c < P[i] => end_byte(t, c) <= byte_index
    /\ \A c \in children(t, P[Len(P)]) : end_byte(t, c) <= byte_index

\* C10 as claimed: after trace_at the i-th entries of path, trace and
\* nth_children are the kind, the payload and the child ordinal of the i-th
\* node on the path from the root to the node reached.
C10_SameNodeAtEachIndex ==
    (syntax_cursor.some /\ last.op = "trace_at") =>
        LET t == syntax_cursor.v.tree
            P == RootPath(t, syntax_cursor.v.cursor)
        IN  /\ IsDescent(t, P, last.byte_index)
            /\ Len(node_trace.path) = Len(P)
            /\ Len(node_trace.trace) = Len(P)
            /\ Len(node_trace.nth_children) = Len(P)
            /\ \A i \in 1..Len(P) :
                  /\ node_trace.path[i] = kind(t, P[i])
                  /\ node_trace.trace[i] = map_node(t, P[i])
                  /\ node_trace.nth_children[i] = child_index(t, P[i])

\* C10, amended: path lists the kinds from the root to the node reached,
\* trace and nth_children list the payloads and the child ordinals from the
\* node reached back to the root: the i-th entry of path describes the i-th
\* node of the descent, the i-th entries of trace and nth_children describe
\* the i-th node counted from its end.
C10_TraceOrder ==
    (syntax_cursor.some /\ last.op = "trace_at") =>
        LET t == syntax_cursor.v.tree
            P == RootPath(t, syntax_cursor.v.cursor)
            n == Len(P)
        IN  /\ IsDescent(t, P, last.byte_index)
            /\ Len(node_trace.path) = n
            /\ Len(node_trace.trace) = n
            /\ Len(node_trace.nth_children) = n
            /\ \A i \in 1..n :
                  /\ node_trace.path[i] = kind(t, P[i])
                  /\ node_trace.trace[i] = map_node(t, P[n + 1 - i])
                  /\ node_trace.nth_children[i] = child_index(t, P[n + 1 - i])

\* A descent of three nodes whose kinds do not read the same backwards,
\* ending in a node that is not a first child.
C10_Witness ==
    /\ syntax_cursor.some /\ last.op = "trace_at"
    /\ Len(node_trace.path) = 3
    /\ node_trace.path[1] # node_trace.path[3]
    /\ node_trace.nth_children[1] > 0
    /\ node_trace.trace[1] = syntax_cursor.v.cursor

(***************************************************************************)
(* Properties of OpaqueDiff and of the edits it describes.                 *)
(***************************************************************************)
\* C11: for every diff, is_empty holds exactly when byte_index, old_length
\* and new_length are all zero; reverse keeps byte_index and swaps
\* old_length with new_length; reversing twice gives the diff back; and the
\* reverse of empty() is empty.
C11_DiffAlgebra ==
    /\ is_empty(last_diff) <=> (/\ last_diff.byte_index = 0
                           /\ last_diff.old_length = 0
                           /\ last_diff.new_length = 0)
    /\ reverse(reverse(last_diff)) = last_diff
    /\ is_empty(empty) /\ is_empty(reverse(empty))
    /\ last.op = "diff_reverse" =>
           /\ last_diff.byte_index = last.of.byte_index
           /\ last_diff.old_length = last.of.new_length
           /\ last_diff.new_length = last.of.old_length
    /\ last.op = "diff_empty" => is_empty(last_diff)

\* A diff that is not at byte 0 and replaces bytes by a different number of
\* bytes has been reversed.
C11_Witness ==
    /\ last.op = "diff_reverse"
    /\ last_diff.byte_index > 0
    /\ last_diff.old_length > last_diff.new_length
    /\ last_diff.new_length > 0

\* d describes the change of the rope from into the rope to: the range of
\* old_length bytes at byte_index of from is replaced by the new_length
\* bytes found at byte_index of to, and nothing else differs
Describes(d, from, to) ==
    /\ d.byte_index + d.old_length <= Len(from)
    /\ d.byte_index + d.new_length <= Len(to)
    /\ to = splice(from, d.byte_index, d.old_length,
                   SubSeq(to, d.byte_index + 1, d.byte_index + d.new_length))

\* C12: when an edit took the rope R0 to R1 with diff D, undoing it returns
\* the reverse of D, which describes the change of R1 back into R0, and
\* the buffer's rope is R0 again, byte for byte.
C12_DiffReversibility ==
    [][(last'.op = "undo" /\ last'.effect = "moved") =>
           LET D == revisions[current].diff
               R1 == staged
               R0 == revisions[current - 1].rope
           IN  /\ R1 = revisions[current].rope
               /\ Describes(D, R0, R1)
               /\ last_diff' = reverse(D)
               /\ Describes(last_diff', R1, R0)
               /\ staged' = R0]_vars

\* An edit that replaced two bytes by one, away from the start of the rope
\* or not, has been undone.
C12_Witness ==
    /\ last.op = "undo" /\ last.effect = "moved"
    /\ last_diff.new_length = 2 /\ last_diff.old_length = 1
    /\ Len(staged) = 2 /\ staged[1] # staged[2]

(***************************************************************************)
(* Properties of the Editor opening files.                                 *)
(***************************************************************************)
\* the step is Editor::update on OpenFile(path)
OpenFileStep == last'.op = "update" /\ last'.effect = "OpenFile"

\* the buffer the focused window shows, 0 when there is no window
FocusedBuffer(windows) ==
    IF windows.views = <<>> THEN 0 ELSE windows.views[windows.focused]

\* C13: when the Editor handles OpenFile(path) and open_file fails, on bytes
\* that are not UTF-8 or on an I/O error, no buffer is added, the windows
\* and the focus stay as they were, the prompt becomes a Log message and
\* the editor keeps running.
C13_FailedOpen ==
    [][(OpenFileStep /\ last'.result = "Err")
          => /\ editor'.buffers = editor.buffers
             /\ editor'.windows = editor.windows
             /\ editor'.prompt_action = PromptAction("Log", "Could not open file")
             /\ ~editor'.exited]_vars

\* a file of invalid UTF-8 has failed to open next to an open buffer
C13_Witness ==
    /\ last.op = "update"
    /\ last.result = "Err"
    /\ last.found
    /\ last.at_open.kind = "binary"
    /\ Len(editor.buffers) = 1
    /\ FocusedBuffer(editor.windows) = 1
    /\ editor.prompt_action.kind = "Log"

\* a new, empty buffer bound to the path is the last one, the focused window
\* shows it and the prompt reads "[New file]"
OpenedAsNewFile(path) ==
    /\ last'.result = "Ok(true)"
    /\ editor'.buffers =
          Append(editor.buffers, [id |-> Len(editor.buffers) + 1,
                                  file_path |-> path, content |-> ""])
    /\ FocusedBuffer(editor'.windows) = Len(editor'.buffers)
    /\ editor'.prompt_action = PromptAction("Log", "[New file]")

\* C14, as stated: opening a path whose file is absent returns Ok(true),
\* creates and focuses an empty buffer bound to the path and shows
\* "[New file]".
C14_AbsentFileIsNew ==
    [][(OpenFileStep /\ ~last'.found /\ last'.at_open.kind = "absent")
          => OpenedAsNewFile(last'.path)]_vars

\* C14, amended: opening a path that no buffer is bound to and whose file is
\* absent returns Ok(true), creates and focuses an empty buffer bound to the
\* path and shows "[New file]".
C14_AbsentFileIsNewUnlessOpen ==
    [][(/\ OpenFileStep
        /\ ~last'.found
        /\ last'.at_open.kind = "absent"
        /\ ~find_by_path(editor.buffers, last'.path).some)
          => OpenedAsNewFile(last'.path)]_vars

\* a second buffer has been opened as a new file
C14_Witness ==
    /\ last.op = "update"
    /\ last.result = "Ok(true)"
    /\ ~last.found
    /\ last.at_open.kind = "absent"
    /\ Len(editor.buffers) = 2
    /\ editor.buffers[2] = [id |-> 2, file_path |-> last.path, content |-> ""]
    /\ FocusedBuffer(editor.windows) = 2
    /\ editor.prompt_action.message = "[New file]"

(***************************************************************************)
(* Properties of mode resolution.                                          *)
(***************************************************************************)
\* C15: find_by_filename returns the mode matched by exact filename first,
\* then by the longest suffix match over all modes' patterns, and the
\* plain-text mode, which has no parser, when nothing matches.
C15_ModeResolution ==
    LET name_of == to_str(lookup.filename)
        pattern(h) == LANGUAGE_MODES[h[1]].file[h[2]]
        patterns == UNION {{<<i, j>> : j \in 1..Len(LANGUAGE_MODES[i].file)} :
                              i \in 1..Len(LANGUAGE_MODES)}
        exact == {h \in patterns : /\ pattern(h).variant = "Name"
                                   /\ name_of = Some(pattern(h).text)}
        hits == {h \in patterns : /\ pattern(h).variant = "Suffix"
                                  /\ name_of.some
                                  /\ ends_with(name_of.v, pattern(h).text)}
    IN  lookup.mode.some =>
            IF exact # {}
            THEN \E h \in exact : lookup.mode.v = LANGUAGE_MODES[h[1]]
            ELSE IF hits # {}
            THEN \E h \in hits :
                    /\ \A g \in hits :
                          Len(pattern(g).text) <= Len(pattern(h).text)
                    /\ lookup.mode.v = LANGUAGE_MODES[h[1]]
            ELSE lookup.mode.v = PLAIN_TEXT_MODE /\ ~lookup.mode.v.parser

\* "a.h" was looked up: a suffix of two modes matches, and the mode is C
C15_Witness ==
    /\ lookup.filename = Path(Some(<<"a", ".", "h">>), TRUE)
    /\ matches_by_filename(LANGUAGE_MODES[7], lookup.filename)
    /\ matches_by_filename(LANGUAGE_MODES[8], lookup.filename)
    /\ lookup.mode.some
    /\ lookup.mode.v.name = "C"

(***************************************************************************)
(* Properties of Buffer::input_binding.                                    *)
(***************************************************************************)
\* C16: input_binding returns Continue only for a pressed slice that is an
\* accepted prefix of a multi-key binding, the lone Ctrl-x, and Clear for
\* every other slice; a pressed slice triggers at most one effect: one
\* cursor operation and no message, or one message and no cursor operation.
C16_TwoStateMatcher ==
    binding.result.some =>
        LET result == binding.result.v
            pressed == binding.pressed
            cursor_arms == CursorArms(FALSE, TRUE)
            message_arms == MessageArms(TRUE)
            bound == UNION {cursor_arms[i].slices : i \in 1..Len(cursor_arms)}
                       \cup UNION {message_arms[i].slices :
                                      i \in 1..Len(message_arms)}
            effects == Len(result.invoked)
                         + (IF result.message.some THEN 1 ELSE 0)
        IN  /\ result.transition \in {"Continue", "Clear"}
            /\ result.transition = "Continue" =>
                   /\ pressed = <<Ctrl("x")>>
                   /\ \E s \in bound : /\ Len(pressed) < Len(s)
                                       /\ SubSeq(s, 1, Len(pressed)) = pressed
                   /\ effects = 0
            /\ pressed # <<Ctrl("x")>> => result.transition = "Clear"
            /\ effects <= 1

\* the lone Ctrl-x was pressed and input_binding answered Continue
C16_Witness ==
    /\ binding.pressed = <<Ctrl("x")>>
    /\ binding.result.some
    /\ binding.result.v = BindingMatch("Continue", None, <<>>)

\* the movement and editing operations of the cursor
CursorContract ==
    {"move_up", "move_down", "move_left", "move_right", "move_down_n",
     "move_up_n", "move_to_start_of_line", "move_to_end_of_line",
     "move_to_start_of_buffer", "move_to_end_of_buffer", "insert_char",
     "insert_new_line", "insert_tab", "delete_forward", "delete_backward",
     "delete_line", "begin_selection", "clear_selection", "select_all",
     "copy_selection_to_clipboard", "cut_selection_to_clipboard",
     "paste_from_clipboard", "undo", "redo", "save"}

\* what the slices of keys invoke when the edit-tree view is closed, for
\* either value of DISABLE_TABS
Invocations ==
    [t \in BOOLEAN |-> {input_binding(FALSE, t, pressed).invoked :
                        pressed \in Pressed(MaxPressed)}]

\* C17, as stated: with the edit-tree view closed, every operation of the
\* cursor contract is invoked by at least one key slice, and no key slice
\* invokes two of them.
C17_EveryOperationBound ==
    (binding.result.some /\ ~binding.viewing_edit_tree) =>
        /\ \A op \in CursorContract :
               <<op>> \in Invocations[binding.DISABLE_TABS]
        /\ Len(binding.result.v.invoked) <= 1

\* C17, amended: with the edit-tree view closed, every operation of the
\* cursor contract other than insert_tab is invoked by at least one key
\* slice, insert_tab is invoked (by Tab) exactly when DISABLE_TABS is set,
\* and no key slice invokes two of them.
C17_EveryOperationButTabBound ==
    (binding.result.some /\ ~binding.viewing_edit_tree) =>
        /\ \A op \in CursorContract \ {"insert_tab"} :
               <<op>> \in Invocations[binding.DISABLE_TABS]
        /\ <<"insert_tab">> \in Invocations[binding.DISABLE_TABS]
               <=> binding.DISABLE_TABS
        /\ binding.result.v.invoked \in
               {<<>>} \cup {<<op>> : op \in CursorContract}

\* Tab was pressed with DISABLE_TABS set and invoked insert_tab alone
C17_Witness ==
    /\ binding.DISABLE_TABS
    /\ ~binding.viewing_edit_tree
    /\ binding.pressed = <<Char("\t")>>
    /\ binding.result.some
    /\ binding.result.v.invoked = <<"insert_tab">>

(***************************************************************************)
(* Properties of the parsers and their cancel flags.                       *)
(***************************************************************************)
\* the step is a call of spawn_parse_task that the scheduler accepted
SpawnStep == next_task_id' = next_task_id + 1

\* C18: on a successful spawn while a task is recorded, the previous task's
\* cancel flag is set before the new task is recorded: the flag that is set
\* is the one recorded before the call, not the one recorded by it, so that
\* after the call the superseded task's flag is set and the new task's flag
\* is unset.
C18_CancelOrdering ==
    [][(SpawnStep /\ current_parse_task.some)
          => /\ current_parse_task'.some
             /\ current_parse_task'.v.task_id = next_task_id
             /\ current_parse_task'.v.flag # current_parse_task.v.flag
             /\ flag'[current_parse_task.v.flag] = CANCEL_FLAG_SET
             /\ flag'[current_parse_task'.v.flag] = CANCEL_FLAG_UNSET]_vars

\* a task has just been superseded by one that runs on a parser from the
\* pool: the third task, on the parser of the first
C18_Witness ==
    /\ last.op = "spawn" /\ last.effect = "spawned"
    /\ current_parse_task.some
    /\ current_parse_task.v.task_id = last.task_id
    /\ \E old \in Unhandled, new \in Unhandled :
          /\ new.task_id = last.task_id
          /\ old.task_id + 1 = new.task_id
          /\ new.parser < old.parser
          /\ flag[old.parser] = CANCEL_FLAG_SET
          /\ flag[new.parser] = CANCEL_FLAG_UNSET

\* C19: no two unhandled tasks share a cancel flag (each task's flag is
\* that of its parser), so setting the flag of a superseded task cancels
\* neither the new task nor any other: the recorded task's flag stays unset.
C19_DistinctFlags ==
    /\ \A t1 \in Unhandled, t2 \in Unhandled :
          t1.parser = t2.parser => t1.task_id = t2.task_id
    /\ \A t \in Recorded : flag[t.parser] = CANCEL_FLAG_UNSET

\* two tasks are unhandled, the superseded one with its flag set and the
\* recorded one with its flag unset
C19_Witness ==
    /\ \E old \in Unhandled \ Recorded : flag[old.parser] = CANCEL_FLAG_SET
    /\ \E new \in Recorded : flag[new.parser] = CANCEL_FLAG_UNSET
    /\ last.op = "spawn" /\ last.effect = "spawned"

\* C20: each constructed parser is in exactly one place, the pool or one
\* outstanding task or its undelivered completion; every handled completion
\* returns its parser to the pool; no parser is duplicated, and none is lost
\* by a step other than a spawn that fails.
C20_ParserOwnership ==
    /\ [](\A parser \in LiveParsers :
            Cardinality({i \in 1..Len(parsers) : parsers[i] = parser})
                + Cardinality({t \in running : t.parser = parser})
                + Cardinality({i \in 1..Len(inbox) : inbox[i].parser = parser})
              = 1)
    /\ [][last'.op = "done" =>
             parsers' = Append(parsers, Head(inbox).parser)]_vars
    /\ [][last'.effect # "error" => LiveParsers \subseteq LiveParsers']_vars

\* a second parser was constructed while the first was out, and both have
\* come back to the pool
C20_Witness ==
    /\ Len(parsers) = 2
    /\ parsers[1] # parsers[2]
    /\ running = {}
    /\ inbox = <<>>
    /\ last.op = "done"

\* C21: every parser in the pool has its cancel flag unset; the recorded
\* task is one whose completion has not been handled, so the flag it holds
\* is not a pooled parser's; and a task that has just been spawned has its
\* flag unset.
C21_PooledFlagsClear ==
    /\ \A i \in 1..Len(parsers) : flag[parsers[i]] = CANCEL_FLAG_UNSET
    /\ current_parse_task.some =>
          /\ \E t \in Unhandled :
                /\ t.task_id = current_parse_task.v.task_id
                /\ t.parser = current_parse_task.v.flag
          /\ \A i \in 1..Len(parsers) :
                parsers[i] # current_parse_task.v.flag
    /\ last.effect = "spawned" =>
          /\ current_parse_task.some
          /\ flag[current_parse_task.v.flag] = CANCEL_FLAG_UNSET

\* the third task has been spawned on the parser of the first, which was
\* superseded by the second and handled, while the second is unhandled with
\* its flag set
C21_Witness ==
    /\ last.effect = "spawned" /\ last.task_id = 3
    /\ parsers = <<>>
    /\ flag[current_parse_task.v.flag] = CANCEL_FLAG_UNSET
    /\ \A t \in Unhandled : t.task_id # 1
    /\ \E t \in Unhandled :
          /\ t.task_id = 2
          /\ t.parser > current_parse_task.v.flag
          /\ flag[t.parser] = CANCEL_FLAG_SET

\* C22: a spawn constructs a parser only when the pool is empty, and after
\* any sequence of successful spawns and completions the number of parsers
\* constructed is at most the largest number of tasks that were spawned and
\* not yet handled at one time.
C22_PoolBoundsGrowth ==
    /\ [](peak.constructed <= peak.unhandled)
    /\ [][peak'.constructed # peak.constructed => parsers = <<>>]_vars

\* three tasks have been spawned, never more than two of them unhandled at
\* once, on two parsers
C22_Witness ==
    /\ next_task_id = 4
    /\ peak.unhandled = 2
    /\ peak.constructed = 2
    /\ Cardinality(LiveParsers) = 2

(***************************************************************************)
(* Properties of SyntaxTree::edit.                                         *)
(***************************************************************************)
\* C23: SyntaxTree::edit(diff) on a cached tree with a diff that is not
\* empty gives the tree the input edit that starts at diff.byte_index, ended
\* at that plus old_length and ends at that plus new_length; with no cached
\* tree or an empty diff the tree is as it was; and in every case
\* current_parse_task, the pool and the cancel flags are as they were.
C23_EditFrame ==
    [][last'.op = "edit" =>
          \A diff \in Diffs(rope.len) :
              edit(diff) =>
                  /\ tree' = IF tree.some /\ ~is_empty(diff)
                             THEN Some(TreeEdit(tree.v, diff.byte_index,
                                                diff.byte_index + diff.old_length,
                                                diff.byte_index + diff.new_length,
                                                rope.ver, rope'.ver))
                             ELSE tree
                  /\ (~tree.some \/ is_empty(diff)) => tree' = tree
                  /\ current_parse_task' = current_parse_task
                  /\ parsers' = parsers
                  /\ flag' = flag]_vars

\* the cached tree of a one-byte text has been adjusted twice: the byte was
\* deleted and a byte was inserted
C23_Witness ==
    /\ last.op = "edit"
    /\ tree.some /\ tree.v.ver = 0 /\ tree.v.adj = 2
    /\ spawned.v.len = 1 /\ rope.len = 1
    /\ tree.v.end_byte = 1

\* C24 as claimed: a cached tree ends inside the snapshot it was parsed
\* from, in every state, also after edit has adjusted it.  The snapshot is the
\* rope of the latest spawn whenever that has the tree's version.
C24_WithinLastSnapshot ==
    (tree.some /\ spawned.some /\ spawned.v.ver = tree.v.ver)
        => tree.v.end_byte <= spawned.v.len

\* C24, amended: a tree ends inside the snapshot it was parsed from when it
\* is installed, and for as long as the buffer's rope is still that
\* snapshot; an edit adjustment moves the end with the edit.
C24_WithinSnapshotUntilEdited ==
    /\ (last.op = "done" /\ last.effect = "installed")
          => /\ tree = Some(last.status.parsed.v.tree)
             /\ last.status.task.text = spawned.v
             /\ tree.v.ver = spawned.v.ver
             /\ tree.v.end_byte <= spawned.v.len
    /\ (tree.some /\ rope.ver = tree.v.ver) => tree.v.end_byte <= rope.len

\* a byte has been inserted into a buffer whose tree covered all of its
\* text: the adjusted tree ends one byte past the snapshot it was parsed from
C24_Witness ==
    /\ last.op = "edit"
    /\ tree.some /\ spawned.some /\ spawned.v.ver = tree.v.ver
    /\ tree.v.adj = rope.ver /\ rope.ver > tree.v.ver
    /\ tree.v.end_byte = rope.len
    /\ tree.v.end_byte > spawned.v.len

(***************************************************************************)
(* Properties of trace_at: what it depends on and what it reports.         *)
(***************************************************************************)
\* C25: the trace left by trace_at(byte_index) is the trace a call with that
\* byte_index leaves in a new NodeTrace, with the cursor on any node of the
\* tree: it depends on the tree and byte_index alone, not on what the trace
\* held or where an earlier call left the cursor; and a second call with
\* the same byte_index leaves the same trace.
C25_Stateless ==
    (syntax_cursor.some /\ last.op = "trace_at") =>
        LET t == syntax_cursor.v.tree
        IN  /\ \A x \in 1..t.n :
                  node_trace = trace_at([tree |-> t, cursor |-> x],
                                        NodeTraceNew, last.byte_index).trace
            /\ node_trace = trace_at(syntax_cursor.v, node_trace,
                                     last.byte_index).trace

\* a call past the end of the text, made on a trace that held the result of
\* an earlier call, left the root alone in the trace
C25_Witness ==
    /\ syntax_cursor.some /\ last.op = "trace_at"
    /\ last.reused
    /\ syntax_cursor.v.tree.n = 3
    /\ last.byte_index >= end_byte(syntax_cursor.v.tree, 1)
    /\ Len(node_trace.path) = 1

\* what C26 says of the lengths, of is_error and of byte_range
TraceShape ==
    LET t == syntax_cursor.v.tree
        node == syntax_cursor.v.cursor
        P == RootPath(t, node)
    IN  /\ Len(node_trace.path) >= 1
        /\ Len(node_trace.trace) = Len(node_trace.path)
        /\ Len(node_trace.nth_children) = Len(node_trace.path)
        /\ IsDescent(t, P, last.byte_index)
        /\ node_trace.is_error <=> \E i \in 1..Len(P) : is_error(t, P[i])
        /\ node_trace.byte_range = [start |-> start_byte(t, node),
                                    end |-> end_byte(t, node)]

\* C26 as claimed: after trace_at(byte_index) the three vectors have one
\* length, at least 1; is_error holds exactly when a node of the descent is
\* an error node; byte_range is the range of the deepest node reached, and
\* byte_index is inside it.
C26_DeepestNodeContains ==
    (syntax_cursor.some /\ last.op = "trace_at") =>
        /\ TraceShape
        /\ node_trace.byte_range.start <= last.byte_index
        /\ last.byte_index < node_trace.byte_range.end

\* C26, amended: the lengths, is_error and byte_range are as claimed; the
\* deepest node reached ends after byte_index unless byte_index is at or
\* past the end of the root, where the root is the node reached; and it
\* contains byte_index exactly when byte_index is before the end of the root
\* and not in white space between or before the nodes.
C26_TraceReport ==
    (syntax_cursor.some /\ last.op = "trace_at") =>
        LET t == syntax_cursor.v.tree
            past_the_root == last.byte_index >= end_byte(t, 1)
            in_white_space == /\ t.gap # 0
                              /\ last.byte_index + 1 = start_byte(t, t.gap)
        IN  /\ TraceShape
            /\ past_the_root => syntax_cursor.v.cursor = 1
            /\ ~past_the_root => last.byte_index < node_trace.byte_range.end
            /\ ( /\ node_trace.byte_range.start <= last.byte_index
                 /\ last.byte_index < node_trace.byte_range.end )
                   <=> (~past_the_root /\ ~in_white_space)

\* the trace at a byte of white space between two leaves, the first of them
\* an error node: the node reached is the second leaf, which starts after
\* the byte, and is_error is false
C26_Witness ==
    /\ syntax_cursor.some /\ last.op = "trace_at"
    /\ syntax_cursor.v.tree.n = 3
    /\ syntax_cursor.v.tree.gap = 3
    /\ syntax_cursor.v.tree.kind[2] = "ERROR"
    /\ last.byte_index = 1
    /\ syntax_cursor.v.cursor = 3
    /\ node_trace.byte_range = [start |-> 2, end |-> 3]
    /\ ~node_trace.is_error

(***************************************************************************)
(* Properties of the Buffer component's window.                            *)
(***************************************************************************)
\* C27 as claimed: ensure_cursor_in_view, whatever the frame height, leaves
\* line_offset unchanged when the cursor line is in
\* [line_offset, line_offset + visible_rows), sets it to the cursor line
\* when the cursor is above the window, and otherwise sets it to the value
\* that makes the cursor line the last visible row.
C27_MinimalScrollAnyHeight ==
    [][last'.op \in {"create", "change", "resize"} =>
        LET line_offset == IF buffer.some THEN buffer.v.line_offset ELSE 0
            L == buffer'.v.properties.cursor_line
            visible_rows == num_lines(buffer'.v.frame_height)
            new == buffer'.v.line_offset
        IN  /\ (line_offset <= L /\ L < line_offset + visible_rows)
                    => new = line_offset
            /\ L < line_offset => new = L
            /\ L >= line_offset + visible_rows
                    => new + visible_rows - 1 = L]_vars

\* C27, amended: with a frame height of at least 2 ensure_cursor_in_view
\* leaves line_offset unchanged when the cursor line is in the window, sets
\* it to the cursor line when the cursor is above the window, and sets it
\* to the one value that makes the cursor line the last visible row when
\* the cursor is below.  With a frame height of 0 or 1 there is no visible
\* row: line_offset becomes the cursor line when that is above it, stays
\* when the cursor line equals it, and becomes the cursor line plus one
\* when the cursor line is past it.
C27_MinimalScroll ==
    [][last'.op \in {"create", "change", "resize"} =>
        LET line_offset == IF buffer.some THEN buffer.v.line_offset ELSE 0
            L == buffer'.v.properties.cursor_line
            height == buffer'.v.frame_height
            visible_rows == num_lines(height)
            new == buffer'.v.line_offset
        IN  IF height >= 2
            THEN /\ (line_offset <= L /\ L < line_offset + visible_rows)
                        => new = line_offset
                 /\ L < line_offset => new = L
                 /\ L >= line_offset + visible_rows
                        => new + visible_rows - 1 = L
            ELSE new = CASE L < line_offset -> L
                         [] L = line_offset -> line_offset
                         [] OTHER -> L + 1]_vars

\* A resize left a window of two rows or more that had to scroll down to
\* the cursor line: the cursor line is its last visible row and an
\* earlier line is its first.
C27_Witness ==
    /\ buffer.some /\ last.op = "resize"
    /\ buffer.v.frame_height >= 3
    /\ buffer.v.line_offset > 0
    /\ buffer.v.properties.cursor_line
           = buffer.v.line_offset + num_lines(buffer.v.frame_height) - 1

\* C28 as claimed: in every state of the Buffer component the cursor line
\* is in [line_offset, line_offset + visible_rows), also after each
\* message handled by update, CenterCursorVisually included.
C28_CursorLineInWindow ==
    buffer.some =>
        LET b == buffer.v
            L == b.properties.cursor_line
        IN  /\ b.line_offset <= L
            /\ L < b.line_offset + num_lines(b.frame_height)

C29_KeyModelTranslated ==
    LET KeyModel == {"Char", "Ctrl", "Alt", "F", "Left", "Right", "Up", "Down",
                     "PageUp", "PageDown", "Home", "End", "Backspace",
                     "Delete", "Insert", "BackTab", "Null", "Esc"}
        sent == input.received \o input.channel
    IN  \A i \in 1..Len(input.read) :
            LET event == input.read[i]
            IN  (event.ok /\ event.key.termion \in KeyModel) =>
                    \/ /\ i <= Len(sent)
                       /\ sent[i].variant = event.key.termion
                       /\ sent[i].c = event.key.arg
                    \/ /\ i = Len(input.read)
                       /\ input.thread = "panicked at send"
                       /\ ~input.receiver

\* F12 and then Ctrl-a were read; the first was received as F(12) and the
\* second is in the channel as Ctrl(a), and the thread reads on.
C29_Witness ==
    /\ input.thread = "reading"
    /\ Len(input.read) = 2
    /\ input.read[1].key = [termion |-> "F", arg |-> "12"]
    /\ input.read[2].key = [termion |-> "Ctrl", arg |-> "a"]
    /\ input.received = <<Key("F", "12")>>
    /\ input.channel = <<Ctrl("a")>>

(***************************************************************************)
(* Properties of the scrolling arithmetic.                                 *)
(***************************************************************************)
\* C31 as claimed: whatever the frame height, a second call of
\* ensure_cursor_in_view with the cursor and the frame unchanged leaves
\* line_offset as the first call left it.
C31_IdempotentAnyHeight ==
    (buffer.some /\ last.op \in {"create", "change", "resize"}) =>
        ensure_cursor_in_view(buffer.v.properties.cursor_line,
                              buffer.v.line_offset, buffer.v.frame_height)
            = buffer.v.line_offset

\* C31, amended: with a frame height of at least 2 a second call of
\* ensure_cursor_in_view with the cursor and the frame unchanged leaves
\* line_offset as the first call left it.  With a frame height of 0 or 1
\* the first call may leave line_offset one past the cursor line; the
\* second call then sets it to the cursor line, where it stays.
C31_Idempotent ==
    (buffer.some /\ last.op \in {"create", "change", "resize"}) =>
        LET L == buffer.v.properties.cursor_line
            height == buffer.v.frame_height
            first == buffer.v.line_offset
            second == ensure_cursor_in_view(L, first, height)
        IN  IF height >= 2
            THEN second = first
            ELSE /\ first \in {L, L + 1}
                 /\ second = L
                 /\ ensure_cursor_in_view(L, second, height) = second

\* create scrolled a window of one row or more from line 0 down to the
\* cursor
C31_Witness ==
    /\ buffer.some /\ last.op = "create"
    /\ buffer.v.frame_height >= 2
    /\ buffer.v.line_offset > 0

\* C32: for every cursor line and frame height (0 and 1 included) and
\* every line_offset the component can have, each subtraction that
\* ensure_cursor_in_view or center_visual_cursor evaluates has a minuend
\* that is at least its subtrahend.
C32_NoUnderflow ==
    buffer.some =>
        \A line \in 0..(MaxLines - 1), height \in Heights :
            \A sub \in ensure_subtractions(line, buffer.v.line_offset, height)
                    \cup center_subtractions(line, buffer.v.line_offset,
                                             height) :
                sub[1] >= sub[2]

\* The component stands scrolled past line 0, so that a cursor line above
\* line_offset, a cursor line below the window and a cursor line less
\* than half the frame height are all among the calls looked at.
C32_Witness ==
    /\ buffer.some
    /\ buffer.v.line_offset >= 2
    /\ buffer.v.line_offset > buffer.v.frame_height

(***************************************************************************)
(* Properties of Buffer::reduce.                                           *)
(***************************************************************************)
\* C33: in a step of update, line_offset changes only with
\* CenterCursorVisually; viewing_edit_tree changes only with
\* ToggleEditTree, which flips it, and with ClearSelection, which sets it
\* to false when it was true; Up, Down, Left and Right leave the whole
\* component as it was, the edit tree in its properties included.
C33_ReduceFrame ==
    [][last'.op = "update" =>
        LET message == last'.effect
            b == buffer.v
            after == buffer'.v
        IN  /\ after.line_offset # b.line_offset
                => message = "CenterCursorVisually"
            /\ after.viewing_edit_tree # b.viewing_edit_tree
                => \/ message = "ToggleEditTree"
                   \/ message = "ClearSelection" /\ b.viewing_edit_tree
            /\ message = "ToggleEditTree"
                => after.viewing_edit_tree = ~b.viewing_edit_tree
            /\ (message = "ClearSelection" /\ b.viewing_edit_tree)
                => ~after.viewing_edit_tree
            /\ message \in {"Up", "Down", "Left", "Right"}
                => after = b
            /\ after.properties = b.properties
            /\ after.frame_height = b.frame_height]_vars

\* Up was handled while the edit tree was shown and the view was scrolled:
\* both are as they were.
C33_Witness ==
    /\ buffer.some /\ last.op = "update" /\ last.effect = "Up"
    /\ buffer.v.viewing_edit_tree
    /\ buffer.v.line_offset > 0

(***************************************************************************)
(* Properties of the keys of the edit tree view.                           *)
(***************************************************************************)
\* C34: input_binding, called with one of the keys Up, Down, Left, Right,
\* Ctrl-p, Ctrl-n, Ctrl-b, Ctrl-f or Ctrl-g: while viewing_edit_tree is
\* true it invokes no cursor operation and returns the message Up, Down,
\* Left, Right or ClearSelection of that key; while it is false it invokes
\* the cursor operation of that key and returns no message.
C34_EditTreeKeyRouting ==
    LET routes ==
            {<<Key("Up", ""), "move_up", "Up">>,
             <<Ctrl("p"), "move_up", "Up">>,
             <<Key("Down", ""), "move_down", "Down">>,
             <<Ctrl("n"), "move_down", "Down">>,
             <<Key("Left", ""), "move_left", "Left">>,
             <<Ctrl("b"), "move_left", "Left">>,
             <<Key("Right", ""), "move_right", "Right">>,
             <<Ctrl("f"), "move_right", "Right">>,
             <<Ctrl("g"), "clear_selection", "ClearSelection">>}
    IN  binding.result.some =>
            \A route \in routes :
                binding.pressed = <<route[1]>> =>
                    IF binding.viewing_edit_tree
                    THEN /\ binding.result.v.invoked = <<>>
                         /\ binding.result.v.message = Some(route[3])
                    ELSE /\ binding.result.v.invoked = <<route[2]>>
                         /\ binding.result.v.message = None

\* Ctrl-g was pressed while the edit tree was shown and came back as the
\* message ClearSelection.
C34_Witness ==
    /\ binding.viewing_edit_tree
    /\ binding.pressed = <<Ctrl("g")>>
    /\ binding.result.some
    /\ binding.result.v.message = Some("ClearSelection")

(***************************************************************************)
(* Properties of the Editor's buffers and prompt.                          *)
(***************************************************************************)
\* C35: no two buffers hold the same file path, and an OpenFile for a path
\* that a buffer already holds adds no buffer, puts that buffer in the
\* focused window and returns Ok(false), whatever is at the path.
C35_NoDuplicateBuffers ==
    /\ [](\A i, j \in 1..Len(editor.buffers) :
              editor.buffers[i].file_path = editor.buffers[j].file_path
                  => i = j)
    /\ [][(last'.op = "update" /\ last'.effect = "OpenFile"
              /\ \E i \in 1..Len(editor.buffers) :
                    editor.buffers[i].file_path = last'.path) =>
            /\ editor'.buffers = editor.buffers
            /\ last'.result = "Ok(false)"
            /\ editor'.buffers[editor'.windows.views[editor'.windows.focused]]
                   .file_path = last'.path]_vars

\* Two buffers are open, and an OpenFile for the path of one of them, at
\* which there now is a file that may not be read, returned Ok(false).
C35_Witness ==
    /\ last.op = "update" /\ last.effect = "OpenFile"
    /\ last.at_open.kind = "denied"
    /\ last.result = "Ok(false)"
    /\ Len(editor.buffers) = 2

\* C36: while the prompt is a file picker or a buffer switcher,
\* OpenFilePicker, OpenBufferSwitcher and Log leave prompt_action and
\* prompt_height as they are, and the prompt stops being interactive only
\* with Cancel, OpenFile or SelectBuffer; while it is not interactive,
\* Cancel changes nothing.
C36_InteractivePromptStays ==
    [][last'.op = "update" =>
        LET t == last'.effect
        IN  IF editor.prompt_action.kind \in {"OpenFile", "SwitchBuffer"}
            THEN /\ t \in {"OpenFilePicker", "OpenBufferSwitcher", "Log"}
                     => /\ editor'.prompt_action = editor.prompt_action
                        /\ editor'.prompt_height = editor.prompt_height
                 /\ editor'.prompt_action # editor.prompt_action
                     => t \in {"Cancel", "OpenFile", "SelectBuffer"}
            ELSE t = "Cancel" => editor' = editor]_vars

\* A Log message arrived while the buffer switcher was open, with its
\* height changed by the prompt: the switcher and its height are still
\* there.
C36_Witness ==
    /\ last.op = "update" /\ last.effect = "Log"
    /\ editor.prompt_action.kind = "SwitchBuffer"
    /\ ~editor.prompt_height.initial

\* C37 as claimed: whenever open_file makes a buffer and reports the file
\* as existing (Ok(false)), the buffer's content is the content of the
\* file at the path, also when the file appeared between the call of
\* exists() and the call of File::open.
C37_ContentOfExistingFile ==
    [][(last'.op = "update" /\ last'.effect = "OpenFile"
           /\ last'.result = "Ok(false)"
           /\ Len(editor'.buffers) > Len(editor.buffers)) =>
        editor'.buffers[Len(editor'.buffers)].content
            = last'.at_open.content]_vars

====
